---- MODULE Spec2Model ----
(***************************************************************************)
(* Model of bcdi: center_fft (cropping / padding of a 3D diffraction       *)
(* volume for FFT size requirements) and its helper zero_pad.              *)
(*                                                                         *)
(* Arrays are 0-based, as in numpy: a vector is a function on 0..n-1, a    *)
(* volume is a record [shape, v] with v a function on index triples.       *)
(***************************************************************************)
EXTENDS Integers, Sequences, FiniteSets, TLC

\* ------------------------------------------------------------- bounds
MaxZ == 4            \* largest rocking-axis length of an input volume
MaxYX == 3           \* largest detector-plane length of an input volume
MaxShift == 1        \* how far outside the volume a fix_bragg index may lie

\* ------------------------------------------------ program constants
maxprime == 7              \* maxprime=7 in every smaller/higher_primes call
required_divider == 2      \* required_dividers=(2,)

\* ------------------------------------------------------ arithmetic
Min(a, b) == IF a <= b THEN a ELSE b
Max(a, b) == IF a >= b THEN a ELSE b
Abs(a) == IF a < 0 THEN -a ELSE a

\* int(a / 2) of Python for an integer a: true division, then truncation to 0
TruncHalf(a) == IF a >= 0 THEN a \div 2 ELSE -((-a) \div 2)

\* round(num / den) of Python 3 and np.rint (den > 0): ties go to the even
RoundHalfEven(num, den) ==
    LET q == num \div den
        r == num % den
    IN  IF 2 * r < den THEN q
        ELSE IF 2 * r > den THEN q + 1
        ELSE IF q % 2 = 0 THEN q ELSE q + 1

\* ------------------------------------- util.smaller/higher_primes
RECURSIVE StripFactors(_, _)
\* n without its prime factors <= p (n >= 1)
StripFactors(n, p) ==
    IF p < 2 THEN n
    ELSE IF n % p = 0 THEN StripFactors(n \div p, p)
    ELSE StripFactors(n, p - 1)

\* FFT-compatible size: largest prime factor <= maxprime, divisible by 2
FFTCompatible(n) ==
    /\ n >= 1
    /\ n % required_divider = 0
    /\ StripFactors(n, maxprime) = 1

NoSize == -1    \* no FFT-compatible size exists: the call fails

RECURSIVE smaller_primes(_)
\* the largest FFT-compatible size <= n
smaller_primes(n) ==
    IF n < 2 THEN NoSize
    ELSE IF FFTCompatible(n) THEN n
    ELSE smaller_primes(n - 1)

RECURSIVE higher_primes(_)
\* the smallest FFT-compatible size >= n
higher_primes(n) ==
    IF n < 2 THEN 2
    ELSE IF FFTCompatible(n) THEN n
    ELSE higher_primes(n + 1)

\* ------------------------------------------------------------ arrays
VLen(v) == Cardinality(DOMAIN v)

Idx3(sh) == (0 .. sh[1] - 1) \X (0 .. sh[2] - 1) \X (0 .. sh[3] - 1)

\* Python's a:b on an axis of length n, as the pair <<start, stop>> of the
\* indices start..stop-1 it selects (none when stop <= start)
PySlice(n, a, b) ==
    LET norm(i) == IF i < 0 THEN Max(i + n, 0) ELSE Min(i, n)
        lo == norm(a)
        hi == norm(b)
    IN  <<lo, Max(lo, hi)>>

SliceLen(s) == s[2] - s[1]

\* array[z0:z1, y0:y1, x0:x1]
Slice3(array, sz, sy, sx) ==
    LET sh == <<SliceLen(sz), SliceLen(sy), SliceLen(sx)>>
    IN  [shape |-> sh,
         v |-> [p \in Idx3(sh) |->
                  array.v[<<p[1] + sz[1], p[2] + sy[1], p[3] + sx[1]>>]]]

\* vec[a:b]
Slice1(vec, s) == [i \in 0 .. SliceLen(s) - 1 |-> vec[i + s[1]]]

Full(n) == <<0, n>>     \* the slice ":" of an axis of length n

\* sum of g(0) .. g(n-1)
SumOver(n, g(_)) ==
    LET s[i \in 0 .. n] == IF i = 0 THEN 0 ELSE s[i - 1] + g(i - 1)
    IN  s[n]

\* np.unravel_index(i, shape) for a 3D shape, C order
Unravel(i, sh) == <<i \div (sh[2] * sh[3]), (i \div sh[3]) % sh[2], i % sh[3]>>

\* abs(array).argmax(): the first index, in C order, of the largest modulus
ArgMax(array) ==
    LET sh == array.shape
        n == sh[1] * sh[2] * sh[3]
        val(i) == Abs(array.v[Unravel(i, sh)])
    IN  CHOOSE i \in 0 .. n - 1 :
            \A j \in 0 .. n - 1 :
                /\ val(j) <= val(i)
                /\ (j < i => val(j) < val(i))

\* scipy.ndimage.center_of_mass(array): per axis the pair <<numerator,
\* denominator>> of sum(index * value) / sum(value); a zero denominator is
\* the NaN scipy returns for an array whose values sum to zero
center_of_mass(array) ==
    LET sh == array.shape
        n == sh[1] * sh[2] * sh[3]
        total == SumOver(n, LAMBDA i : array.v[Unravel(i, sh)])
        moment(k) == SumOver(n, LAMBDA i : Unravel(i, sh)[k] * array.v[Unravel(i, sh)])
    IN  [k \in 1 .. 3 |-> <<moment(k), total>>]

IsNaN(r) == r[2] = 0

\* ---------------------------------------------------------- zero_pad
\* zero_pad(array, padding_width, mask_flag): a new array of the padded
\* shape filled with 1 (mask_flag) or 0, the input assigned to the block
\* starting at (padding_width[0], padding_width[2], padding_width[4]).
\* numpy raises for a negative dimension and for an assignment whose block
\* does not have the input's shape (an input axis of length 1 broadcasts).
ZeroPadShape(array, pw) ==
    <<array.shape[1] + pw[1] + pw[2],
      array.shape[2] + pw[3] + pw[4],
      array.shape[3] + pw[5] + pw[6]>>

\* mutant: the mask is padded with 0 like the data
ZeroPadFillZero(mask_flag) == 0

ZeroPadFill(mask_flag) == IF mask_flag THEN 1 ELSE 0

ZeroPadBlock(array, pw) ==
    LET sh == ZeroPadShape(array, pw)
    IN  [k \in 1 .. 3 |->
            PySlice(sh[k], pw[2 * k - 1], pw[2 * k - 1] + array.shape[k])]

\* newobj = np.ones / np.zeros of shape sh; newobj[blk] = array
ZeroPadAssign(array, sh, blk, mask_flag) ==
    LET src(p, k) == IF array.shape[k] = 1 THEN 0 ELSE p[k] - blk[k][1]
        inside(p) == \A k \in 1 .. 3 : p[k] >= blk[k][1] /\ p[k] < blk[k][2]
    IN  IF \E k \in 1 .. 3 : sh[k] < 0
        THEN [ok |-> FALSE]
        ELSE IF \E k \in 1 .. 3 :
                    SliceLen(blk[k]) # array.shape[k] /\ array.shape[k] # 1
        THEN [ok |-> FALSE]
        ELSE [ok |-> TRUE,
              arr |-> [shape |-> sh,
                       v |-> [p \in Idx3(sh) |->
                                IF inside(p)
                                THEN array.v[<<src(p, 1), src(p, 2), src(p, 3)>>]
                                ELSE ZeroPadFill(mask_flag)]]]

zero_pad(array, pw, mask_flag) ==
    ZeroPadAssign(array, ZeroPadShape(array, pw), ZeroPadBlock(array, pw),
                  mask_flag)

\* -------------------------------------------------------- center_fft
\* The keyword arguments: an absent keyword takes the default of kwargs.get
QNone == [none |-> TRUE, v |-> <<>>]
QList(s) == [none |-> FALSE, v |-> s]

\* q_values = kwargs.get("q_values", [])
KwargQValues(in) == IF in.q_supplied THEN in.q_values ELSE QList(<<>>)

\* An error raised by center_fft; the caller's frames_logical array keeps
\* whatever was assigned into it before the error
Raise(name, frames) ==
    [status |-> "error", error |-> name, caller_frames |-> frames]

\* The resolved center as three fractions <<numerator, denominator>>
IntPos(p) == [k \in 1 .. 3 |-> <<p[k], 1>>]

\* centering == "max": the position of the maximum; the log line indexes
\* qx, qz, qy with it when q_values is a non-empty list
CenterMax(in) ==
    [ok |-> TRUE, pos |-> IntPos(Unravel(ArgMax(in.data), in.data.shape))]

\* centering == "com": the float position center_of_mass returns; with a
\* non-empty q_values list the log line indexes the q vectors with floats,
\* which numpy refuses
CenterCom(in, q_values) ==
    IF ~q_values.none /\ VLen(q_values.v) # 0
    THEN [ok |-> FALSE, error |-> "IndexError"]
    ELSE [ok |-> TRUE, pos |-> center_of_mass(in.data)]

\* any other centering ('max_com'): the maximum along the first axis, the
\* center of mass of that detector frame, each rounded with np.rint and
\* converted with int, which fails on NaN
CenterMaxCom(in) ==
    LET sh == in.data.shape
        position == Unravel(ArgMax(in.data), sh)
        frame == Slice3(in.data, <<position[1], position[1] + 1>>,
                        Full(sh[2]), Full(sh[3]))
        com == center_of_mass(frame)
    IN  IF IsNaN(com[2]) \/ IsNaN(com[3])
        THEN [ok |-> FALSE, error |-> "ValueError"]
        ELSE [ok |-> TRUE,
              pos |-> <<<<position[1], 1>>,
                        <<RoundHalfEven(com[2][1], com[2][2]), 1>>,
                        <<RoundHalfEven(com[3][1], com[3][2]), 1>>>>]

Centering(in, q_values) ==
    IF in.centering = "max" THEN CenterMax(in)
    ELSE IF in.centering = "com" THEN CenterCom(in, q_values)
    ELSE CenterMaxCom(in)

\* fix_bragg: the user-defined position replaces the one found; its
\* detector-plane indices are moved to the ROI and divided by the binning
FixBragg(in, pos) ==
    LET det == in.detector
        fb == in.fix_bragg
    IN  IF Len(fb) = 0 THEN [ok |-> TRUE, pos |-> pos]
        ELSE IF Len(fb) # 3 THEN [ok |-> FALSE, error |-> "ValueError"]
        ELSE [ok |-> TRUE,
              pos |-> <<<<fb[1], 1>>,
                        <<fb[2] - det.roi[1],
                          det.preprocessing_binning[2] * det.binning[2]>>,
                        <<fb[3] - det.roi[3],
                          det.preprocessing_binning[3] * det.binning[3]>>>>]

\* iz0, iy0, ix0 = int(round(z0)), ...: fails on NaN
RoundPos(pos) ==
    IF \E k \in 1 .. 3 : IsNaN(pos[k])
    THEN [ok |-> FALSE, error |-> "ValueError"]
    ELSE [ok |-> TRUE,
          ipos |-> [k \in 1 .. 3 |-> RoundHalfEven(pos[k][1], pos[k][2])]]

\* data[iz0, iy0, ix0] is read for the log: an index i of an axis of length
\* n is valid when -n <= i < n
ValidIndex(ipos, sh) == \A k \in 1 .. 3 : ipos[k] >= -sh[k] /\ ipos[k] < sh[k]

\* Max symmetrical box around the center
MaxBox(ipos, sh) ==
    <<Abs(2 * Min(ipos[1], sh[1] - ipos[1])),
      2 * Min(ipos[2], sh[2] - ipos[2]),
      Abs(2 * Min(ipos[3], sh[3] - ipos[3]))>>

\* an empty box on any axis defaults fft_option to "skip"
EffectiveOption(fft_option, box) ==
    IF \E k \in 1 .. 3 : box[k] = 0 THEN "skip" ELSE fft_option

\* ---- the pieces the branches of center_fft share
\* mutant: the crop is taken around the middle of the axis, not the peak
CropSymAroundMiddle(nb, i0, n1) ==
    PySlice(nb, nb \div 2 - n1 \div 2, nb \div 2 + n1 \div 2)

\* i0 - n1 // 2 : i0 + n1 // 2 on an axis of length nb
CropSym(nb, i0, n1) == PySlice(nb, i0 - n1 \div 2, i0 + n1 \div 2)

\* nb // 2 - n1 // 2 : nb // 2 + n1 // 2
CropAsym(nb, n1) == PySlice(nb, nb \div 2 - n1 \div 2, nb \div 2 + n1 \div 2)

\* mutant: the padding is split evenly, wherever the peak is
SymPadEven(ps, i0, nb) == <<(ps - nb) \div 2, (ps - nb) - (ps - nb) \div 2>>

\* int(min(ps / 2 - i0, ps - nb)), int(min(ps / 2 - nb + i0, ps - nb))
SymPad(ps, i0, nb) ==
    <<TruncHalf(Min(ps - 2 * i0, 2 * (ps - nb))),
      TruncHalf(Min(ps - 2 * nb + 2 * i0, 2 * (ps - nb)))>>

\* int((n1 - nb + par) / 2), int((n1 - nb + 1) / 2 - ((n1 - nb) % 2))
AsymPad(n1, nb, par) ==
    <<TruncHalf(n1 - nb + par),
      TruncHalf((n1 - nb + 1) - 2 * ((n1 - nb) % 2))>>

\* mutant: the comparison is <, which no size satisfies
PadSizeRejectedNever(pad_size, k) == pad_size[k] > higher_primes(pad_size[k])

\* mutant: the size is compared with the next size above it
PadSizeRejectedAlways(pad_size, k) ==
    pad_size[k] # higher_primes(pad_size[k] + 1)

\* pad_size[k] != util.higher_primes(pad_size[k], ...)
PadSizeRejected(pad_size, k) == pad_size[k] # higher_primes(pad_size[k])

\* mutant: the frames sliced away are dropped from frames_logical
FramesCropShortened(frames_logical, lo, hi, nbz) ==
    LET s == PySlice(VLen(frames_logical), lo, hi)
    IN  [i \in 0 .. s[2] - s[1] - 1 |-> frames_logical[i + s[1]]]

\* frames_logical[0:lo] = 0 if lo > 0; frames_logical[hi:] = 0 if hi < nbz
FramesCrop(frames_logical, lo, hi, nbz) ==
    LET n == VLen(frames_logical)
        head == IF lo > 0 THEN PySlice(n, 0, lo) ELSE <<0, 0>>
        tail == IF hi < nbz THEN PySlice(n, hi, n) ELSE <<0, 0>>
    IN  [i \in 0 .. n - 1 |->
            IF (i >= head[1] /\ i < head[2]) \/ (i >= tail[1] /\ i < tail[2])
            THEN 0 ELSE frames_logical[i]]

\* mutant: the padded frames are marked 0 (unused) instead of -1
FramesPadZeros(frames_logical, n, pw0, nbz) ==
    LET blk == PySlice(n, pw0, pw0 + nbz)
    IN  [ok |-> TRUE,
         frames |-> [i \in 0 .. n - 1 |->
                       IF i >= blk[1] /\ i < blk[2]
                       THEN frames_logical[i - blk[1]] ELSE 0]]

\* temp_frames = -1 * np.ones(n); temp_frames[pw0 : pw0 + nbz] = frames_logical
FramesPad(frames_logical, n, pw0, nbz) ==
    LET blk == PySlice(n, pw0, pw0 + nbz)
        m == VLen(frames_logical)
    IN  IF SliceLen(blk) # m /\ m # 1
        THEN [ok |-> FALSE]
        ELSE [ok |-> TRUE,
              frames |-> [i \in 0 .. n - 1 |->
                            IF i >= blk[1] /\ i < blk[2]
                            THEN frames_logical[IF m = 1 THEN 0 ELSE i - blk[1]]
                            ELSE -1]]

\* dq = q[1] - q[0]; q0 = q[0] - pad * dq; q = q0 + np.arange(n) * dq
QExtend(q, pad, n) ==
    LET dq == q[1] - q[0]
        q0 == q[0] - pad * dq
    IN  [i \in 0 .. n - 1 |-> q0 + i * dq]

\* data = zero_pad(data, ...); mask = zero_pad(mask, ..., mask_flag=True);
\* then the frames: the three statements every padding branch repeats
\* d, m: the padded data and mask; f: the frames rebuilt for them
PadStepFrames(d, m, f) ==
    IF ~f.ok THEN [ok |-> FALSE]
    ELSE [ok |-> TRUE, data |-> d.arr, mask |-> m.arr, frames |-> f.frames]

PadStepArrays(d, m, pad_width, frames_logical, nbz) ==
    IF ~d.ok \/ ~m.ok THEN [ok |-> FALSE]
    ELSE PadStepFrames(d, m, FramesPad(frames_logical, d.arr.shape[1],
                                       pad_width[1], nbz))

PadStep(data, mask, pad_width, frames_logical, nbz) ==
    PadStepArrays(zero_pad(data, pad_width, FALSE),
                  zero_pad(mask, pad_width, TRUE),
                  pad_width, frames_logical, nbz)

\* what a branch hands to the end of center_fft
Branch(data, mask, pad_width, frames_logical, caller_frames, q, crop) ==
    [ok |-> TRUE, data |-> data, mask |-> mask, pad_width |-> pad_width,
     frames_logical |-> frames_logical, caller_frames |-> caller_frames,
     q |-> q, crop |-> crop]

BranchError(name, caller_frames) ==
    [ok |-> FALSE, error |-> name, caller_frames |-> caller_frames]

NoPad == <<0, 0, 0, 0, 0, 0>>

\* ---- the branches of center_fft.  in: the arguments; L: the locals
\* [ipos, sh, box, qx, qz, qy, q_none] on entry to the branch
Q3(qx, qz, qy) == [qx |-> qx, qz |-> qz, qy |-> qy]

\* 'crop_sym_ZYX': crop rocking angle and detector, Bragg peak centered
crop_sym_ZYX(in, L) ==
    LET n1 == [k \in 1 .. 3 |-> smaller_primes(L.box[k])]
        lo == [k \in 1 .. 3 |-> L.ipos[k] - n1[k] \div 2]
        hi == [k \in 1 .. 3 |-> L.ipos[k] + n1[k] \div 2]
        sl == [k \in 1 .. 3 |-> CropSym(L.sh[k], L.ipos[k], n1[k])]
        frames == FramesCrop(in.frames_logical, lo[1], hi[1], L.sh[1])
        q == IF ~L.q_none
             THEN Q3(Slice1(L.qx, PySlice(VLen(L.qx), lo[1], hi[1])),
                     Slice1(L.qz, PySlice(VLen(L.qz), lo[2], hi[2])),
                     Slice1(L.qy, PySlice(VLen(L.qy), lo[3], hi[3])))
             ELSE Q3(L.qx, L.qz, L.qy)
    IN  IF \E k \in 1 .. 3 : n1[k] = NoSize
        THEN BranchError("ValueError", in.frames_logical)
        ELSE Branch(Slice3(in.data, sl[1], sl[2], sl[3]),
                    Slice3(in.mask, sl[1], sl[2], sl[3]),
                    NoPad, frames, frames, q, <<sl[1][1], sl[2][1], sl[3][1]>>)

\* 'crop_asym_ZYX': crop rocking angle and detector without centering the
\* Bragg peak; the q vectors are cropped when len(q_values) != 0
crop_asym_ZYX(in, L) ==
    LET n1 == [k \in 1 .. 3 |-> smaller_primes(L.sh[k])]
        sl == [k \in 1 .. 3 |-> CropAsym(L.sh[k], n1[k])]
        lo == L.sh[1] \div 2 - n1[1] \div 2
        hi == L.sh[1] \div 2 + n1[1] \div 2
        frames == FramesCrop(in.frames_logical, lo, hi, L.sh[1])
        qs == [k \in 1 .. 3 |-> <<L.sh[k] \div 2 - n1[k] \div 2,
                                   L.sh[k] \div 2 + n1[k] \div 2>>]
        q == Q3(Slice1(L.qx, PySlice(VLen(L.qx), qs[1][1], qs[1][2])),
                Slice1(L.qz, PySlice(VLen(L.qz), qs[2][1], qs[2][2])),
                Slice1(L.qy, PySlice(VLen(L.qy), qs[3][1], qs[3][2])))
    IN  IF \E k \in 1 .. 3 : n1[k] = NoSize
        THEN BranchError("ValueError", in.frames_logical)
        ELSE IF L.q_none
        THEN BranchError("TypeError", frames)
        ELSE Branch(Slice3(in.data, sl[1], sl[2], sl[3]),
                    Slice3(in.mask, sl[1], sl[2], sl[3]),
                    NoPad, frames, frames, q, <<sl[1][1], sl[2][1], sl[3][1]>>)

\* the tail every padding branch shares: crop the detector plane (sy, sx),
\* pad, rebuild the frames, then update the q vectors (q_short: a vector to
\* extend has no second element to take the step from)
PadBranchQ(in, L, r, pad_width, q, q_short, crop) ==
    IF ~r.ok THEN BranchError("ValueError", in.frames_logical)
    ELSE IF ~L.q_none /\ q_short
    THEN BranchError("IndexError", in.frames_logical)
    ELSE Branch(r.data, r.mask, pad_width, r.frames, in.frames_logical,
                IF L.q_none THEN Q3(L.qx, L.qz, L.qy) ELSE q, crop)

PadBranch(in, L, sy, sx, pad_width, q, q_short) ==
    PadBranchQ(in, L,
               PadStep(Slice3(in.data, Full(L.sh[1]), sy, sx),
                       Slice3(in.mask, Full(L.sh[1]), sy, sx),
                       pad_width, in.frames_logical, L.sh[1]),
               pad_width, q, q_short, <<0, sy[1], sx[1]>>)

ZPad(p) == <<p[1], p[2], 0, 0, 0, 0>>

\* the crop of the detector plane around the peak, sizes n1 = <<ny1, nx1>>
SymYX(L, n1) ==
    [sy |-> CropSym(L.sh[2], L.ipos[2], n1[1]),
     sx |-> CropSym(L.sh[3], L.ipos[3], n1[2]),
     qz |-> Slice1(L.qz, PySlice(VLen(L.qz), L.ipos[2] - n1[1] \div 2,
                                 L.ipos[2] + n1[1] \div 2)),
     qy |-> Slice1(L.qy, PySlice(VLen(L.qy), L.ipos[3] - n1[2] \div 2,
                                 L.ipos[3] + n1[2] \div 2))]

\* the crop of the detector plane around the middle of the array
AsymYX(L, n1) ==
    [sy |-> CropAsym(L.sh[2], n1[1]),
     sx |-> CropAsym(L.sh[3], n1[2]),
     qz |-> Slice1(L.qz, PySlice(VLen(L.qz), L.sh[2] \div 2 - n1[1] \div 2,
                                 L.sh[2] \div 2 + n1[1] \div 2)),
     qy |-> Slice1(L.qy, PySlice(VLen(L.qy), L.sh[3] \div 2 - n1[2] \div 2,
                                 L.sh[3] \div 2 + n1[2] \div 2))]

\* 'pad_sym_Z_crop_sym_YX': pad the rocking angle to pad_size[0] (Bragg peak
\* centered) and crop the detector (Bragg peak centered)
pad_sym_Z_crop_sym_YX(in, L) ==
    LET n1 == <<smaller_primes(L.box[2]), smaller_primes(L.box[3])>>
        c == SymYX(L, n1)
        pw == ZPad(SymPad(in.pad_size[1], L.ipos[1], L.sh[1]))
    IN  IF Len(in.pad_size) # 3 THEN BranchError("ValueError", in.frames_logical)
        ELSE IF PadSizeRejected(in.pad_size, 1)
        THEN BranchError("ValueError", in.frames_logical)
        ELSE IF n1[1] = NoSize \/ n1[2] = NoSize
        THEN BranchError("ValueError", in.frames_logical)
        ELSE PadBranch(in, L, c.sy, c.sx, pw,
                       Q3(QExtend(L.qx, pw[1], in.pad_size[1]), c.qz, c.qy),
                       VLen(L.qx) < 2)

\* 'pad_sym_Z_crop_asym_YX': pad the rocking angle to pad_size[0] (Bragg
\* peak centered) and crop the detector around the middle of the array, to
\* the sizes found for the box around the peak
pad_sym_Z_crop_asym_YX(in, L) ==
    LET n1 == <<smaller_primes(L.box[2]), smaller_primes(L.box[3])>>
        c == AsymYX(L, n1)
        pw == ZPad(SymPad(in.pad_size[1], L.ipos[1], L.sh[1]))
    IN  IF Len(in.pad_size) # 3 THEN BranchError("ValueError", in.frames_logical)
        ELSE IF PadSizeRejected(in.pad_size, 1)
        THEN BranchError("ValueError", in.frames_logical)
        ELSE IF n1[1] = NoSize \/ n1[2] = NoSize
        THEN BranchError("ValueError", in.frames_logical)
        ELSE PadBranch(in, L, c.sy, c.sx, pw,
                       Q3(QExtend(L.qx, pw[1], in.pad_size[1]), c.qz, c.qy),
                       VLen(L.qx) < 2)

\* 'pad_asym_Z_crop_sym_YX': pad the rocking angle to the next FFT size and
\* crop the detector (Bragg peak centered)
pad_asym_Z_crop_sym_YX(in, L) ==
    LET n1 == <<smaller_primes(L.box[2]), smaller_primes(L.box[3])>>
        nz1 == higher_primes(L.sh[1])
        c == SymYX(L, n1)
        pw == ZPad(AsymPad(nz1, L.sh[1], (nz1 - L.sh[1]) % 2))
    IN  IF n1[1] = NoSize \/ n1[2] = NoSize
        THEN BranchError("ValueError", in.frames_logical)
        ELSE PadBranch(in, L, c.sy, c.sx, pw,
                       Q3(QExtend(L.qx, pw[1], nz1), c.qz, c.qy),
                       VLen(L.qx) < 2)

\* 'pad_asym_Z_crop_asym_YX': pad the rocking angle and crop the detector
\* without centering the Bragg peak
pad_asym_Z_crop_asym_YX(in, L) ==
    LET n1 == <<smaller_primes(L.sh[2]), smaller_primes(L.sh[3])>>
        nz1 == higher_primes(L.sh[1])
        c == AsymYX(L, n1)
        pw == ZPad(AsymPad(nz1, L.sh[1], (nz1 - L.sh[1]) % 2))
    IN  IF n1[1] = NoSize \/ n1[2] = NoSize
        THEN BranchError("ValueError", in.frames_logical)
        ELSE PadBranch(in, L, c.sy, c.sx, pw,
                       Q3(QExtend(L.qx, pw[1], nz1), c.qz, c.qy),
                       VLen(L.qx) < 2)

\* 'pad_sym_Z': keep the detector size, pad the rocking angle to pad_size[0]
\* with the Bragg peak centered
pad_sym_Z(in, L) ==
    LET pw == ZPad(SymPad(in.pad_size[1], L.ipos[1], L.sh[1]))
    IN  IF Len(in.pad_size) # 3 THEN BranchError("ValueError", in.frames_logical)
        ELSE IF PadSizeRejected(in.pad_size, 1)
        THEN BranchError("ValueError", in.frames_logical)
        ELSE PadBranch(in, L, Full(L.sh[2]), Full(L.sh[3]), pw,
                       Q3(QExtend(L.qx, pw[1], in.pad_size[1]), L.qz, L.qy),
                       VLen(L.qx) < 2)

\* 'pad_asym_Z': keep the detector size, pad the rocking angle to the next
\* FFT size
pad_asym_Z(in, L) ==
    LET nz1 == higher_primes(L.sh[1])
        pw == ZPad(AsymPad(nz1, L.sh[1], (nz1 - L.sh[1]) % 2))
    IN  PadBranch(in, L, Full(L.sh[2]), Full(L.sh[3]), pw,
                  Q3(QExtend(L.qx, pw[1], nz1), L.qz, L.qy),
                  VLen(L.qx) < 2)

\* the q vectors of the two ZYX padding branches: qx starts pad_width[0]
\* steps, qy pad_width[2] steps and qz pad_width[1] steps before the first
\* sample; qx, qy, qz get n[0], n[2], n[1] samples
QExtendZYX(L, pw, n) ==
    Q3(QExtend(L.qx, pw[1], n[1]),
       QExtend(L.qz, pw[2], n[2]),
       QExtend(L.qy, pw[3], n[3]))

\* 'pad_sym_ZYX': pad the three axes to pad_size, Bragg peak centered;
\* negative widths are replaced by 0
pad_sym_ZYX(in, L) ==
    LET ps == in.pad_size
        raw == SymPad(ps[1], L.ipos[1], L.sh[1])
                 \o SymPad(ps[2], L.ipos[2], L.sh[2])
                 \o SymPad(ps[3], L.ipos[3], L.sh[3])
        pw == [k \in 1 .. 6 |-> Max(raw[k], 0)]
    IN  IF Len(ps) # 3 THEN BranchError("ValueError", in.frames_logical)
        ELSE IF \E k \in 1 .. 3 : PadSizeRejected(ps, k)
        THEN BranchError("ValueError", in.frames_logical)
        ELSE PadBranch(in, L, Full(L.sh[2]), Full(L.sh[3]), pw,
                       QExtendZYX(L, pw, ps),
                       \E q \in {L.qx, L.qy, L.qz} : VLen(q) < 2)

\* 'pad_asym_ZYX': pad the three axes to the next FFT size; the parity term
\* of the first detector-axis width is read from pad_size[1]
pad_asym_ZYX(in, L) ==
    LET n1 == [k \in 1 .. 3 |-> higher_primes(L.sh[k])]
        pw == AsymPad(n1[1], L.sh[1], (n1[1] - L.sh[1]) % 2)
                \o AsymPad(n1[2], L.sh[2], (in.pad_size[2] - L.sh[2]) % 2)
                \o AsymPad(n1[3], L.sh[3], (n1[3] - L.sh[3]) % 2)
    IN  IF Len(in.pad_size) < 2 THEN BranchError("IndexError", in.frames_logical)
        ELSE PadBranch(in, L, Full(L.sh[2]), Full(L.sh[3]), pw,
                       QExtendZYX(L, pw, n1),
                       \E q \in {L.qx, L.qy, L.qz} : VLen(q) < 2)

\* the if / elif chain on fft_option
Resize(in, L, fft_option) ==
    IF fft_option = "crop_sym_ZYX" THEN crop_sym_ZYX(in, L)
    ELSE IF fft_option = "crop_asym_ZYX" THEN crop_asym_ZYX(in, L)
    ELSE IF fft_option = "pad_sym_Z_crop_sym_YX" THEN pad_sym_Z_crop_sym_YX(in, L)
    ELSE IF fft_option = "pad_sym_Z_crop_asym_YX" THEN pad_sym_Z_crop_asym_YX(in, L)
    ELSE IF fft_option = "pad_asym_Z_crop_sym_YX" THEN pad_asym_Z_crop_sym_YX(in, L)
    ELSE IF fft_option = "pad_asym_Z_crop_asym_YX" THEN pad_asym_Z_crop_asym_YX(in, L)
    ELSE IF fft_option = "pad_sym_Z" THEN pad_sym_Z(in, L)
    ELSE IF fft_option = "pad_asym_Z" THEN pad_asym_Z(in, L)
    ELSE IF fft_option = "pad_sym_ZYX" THEN pad_sym_ZYX(in, L)
    ELSE IF fft_option = "pad_asym_ZYX" THEN pad_asym_ZYX(in, L)
    ELSE IF fft_option = "skip"
    THEN Branch(in.data, in.mask, NoPad, in.frames_logical, in.frames_logical,
                Q3(L.qx, L.qz, L.qy), <<0, 0, 0>>)
    ELSE BranchError("ValueError", in.frames_logical)

\* q_values = list(q_values); q_values[0] = qx; [1] = qz; [2] = qy
ReturnedQ(q_values, q) ==
    IF q_values.none THEN QNone ELSE QList(<<q.qx, q.qz, q.qy>>)

\* The first half of center_fft: unpack q_values, find the center, apply
\* fix_bragg, round, read data[iz0, iy0, ix0]
ResolveRounded(in, rp) ==
    IF ~rp.ok THEN [ok |-> FALSE, error |-> rp.error]
    ELSE IF ~ValidIndex(rp.ipos, in.data.shape)
    THEN [ok |-> FALSE, error |-> "IndexError"]
    ELSE [ok |-> TRUE, ipos |-> rp.ipos]

ResolveFixed(in, fb) ==
    IF ~fb.ok THEN [ok |-> FALSE, error |-> fb.error]
    ELSE ResolveRounded(in, RoundPos(fb.pos))

ResolveCentered(in, c) ==
    IF ~c.ok THEN [ok |-> FALSE, error |-> c.error]
    ELSE ResolveFixed(in, FixBragg(in, c.pos))

ResolveUnpacked(in, q_values) ==
    IF ~q_values.none /\ Len(q_values.v) < 3
    THEN [ok |-> FALSE, error |-> "IndexError"]
    ELSE ResolveCentered(in, Centering(in, q_values))

ResolveCenter(in) == ResolveUnpacked(in, KwargQValues(in))

\* center_fft(data, mask, detector, frames_logical, centering, fft_option,
\* **kwargs), from its first statement to its return or its error
\* the locals a branch reads
Locals(in, q_values, ipos, box) ==
    [ipos |-> ipos, sh |-> in.data.shape, box |-> box,
     qx |-> IF q_values.none THEN <<>> ELSE q_values.v[1],
     qz |-> IF q_values.none THEN <<>> ELSE q_values.v[2],
     qy |-> IF q_values.none THEN <<>> ELSE q_values.v[3],
     q_none |-> q_values.none]

\* the end of center_fft: b is what the branch taken left
Return(q_values, ipos, box, fft_option, b) ==
    IF ~b.ok THEN Raise(b.error, b.caller_frames)
    ELSE [status |-> "ok", error |-> "",
          data |-> b.data, mask |-> b.mask, pad_width |-> b.pad_width,
          q_values |-> ReturnedQ(q_values, b.q),
          frames_logical |-> b.frames_logical,
          caller_frames |-> b.caller_frames,
          peak |-> ipos, box |-> box, fft_option |-> fft_option,
          crop |-> b.crop]

\* the second half of center_fft, from the symmetric box on
CropOrPad(in, q_values, ipos, box, fft_option) ==
    Return(q_values, ipos, box, fft_option,
           Resize(in, Locals(in, q_values, ipos, box), fft_option))

Centered(in, q_values, rc) ==
    IF ~rc.ok THEN Raise(rc.error, in.frames_logical)
    ELSE CropOrPad(in, q_values, rc.ipos, MaxBox(rc.ipos, in.data.shape),
                   EffectiveOption(in.fft_option,
                                   MaxBox(rc.ipos, in.data.shape)))

center_fft(in) == Centered(in, KwargQValues(in), ResolveCenter(in))

\* ------------------------------------------------------------- inputs
\* Intensities: a Bragg peak of PeakValue in one voxel, possibly a hot pixel
\* as bright in the last voxel of the array, on a zero background; or an
\* empty (all zero) volume
PeakValue == 2

Shapes == (1 .. MaxZ) \X (1 .. MaxYX) \X (1 .. MaxYX)

LastVoxel(sh) == <<sh[1] - 1, sh[2] - 1, sh[3] - 1>>

Volume(sh, peak, hot) ==
    [shape |-> sh,
     v |-> [p \in Idx3(sh) |->
              (IF p = peak THEN PeakValue ELSE 0)
              + (IF hot /\ p = LastVoxel(sh) THEN PeakValue ELSE 0)]]

EmptyVolume(sh) == [shape |-> sh, v |-> [p \in Idx3(sh) |-> 0]]

OnePeakVolumes(sh) == {Volume(sh, p, FALSE) : p \in Idx3(sh)}

Volumes(sh) ==
    {EmptyVolume(sh)} \cup {Volume(sh, p, h) : p \in Idx3(sh), h \in BOOLEAN}

\* the mask of a volume: a checkerboard of masked voxels
MaskOf(sh) == [shape |-> sh, v |-> [p \in Idx3(sh) |-> (p[1] + p[2] + p[3]) % 2]]

\* frames_logical of the measured frames: every second frame was skipped
FramesOf(n) == [i \in 0 .. n - 1 |-> (i + 1) % 2]

\* q_values = [qx, qz, qy], uniformly sampled, one per axis of the volume
QOf(sh) ==
    QList(<<[i \in 0 .. sh[1] - 1 |-> 100 + 3 * i],
            [i \in 0 .. sh[2] - 1 |-> 200 + 5 * i],
            [i \in 0 .. sh[3] - 1 |-> 300 + 7 * i]>>)

\* q_values not given, given as None, given as three vectors
QModes == {"absent", "none", "given"}

QArg(mode, sh) == IF mode = "given" THEN QOf(sh) ELSE QNone

Centerings == {"max", "com", "max_com", "centroid"}

FftOptions ==
    {"crop_sym_ZYX", "crop_asym_ZYX", "pad_sym_Z_crop_sym_YX",
     "pad_sym_Z_crop_asym_YX", "pad_asym_Z_crop_sym_YX",
     "pad_asym_Z_crop_asym_YX", "pad_sym_Z", "pad_asym_Z", "pad_sym_ZYX",
     "pad_asym_ZYX", "skip"}

\* the policies that read pad_size
SizedOptions ==
    {"pad_sym_Z_crop_sym_YX", "pad_sym_Z_crop_asym_YX", "pad_sym_Z",
     "pad_sym_ZYX", "pad_asym_ZYX"}

\* the default of the fft_option parameter, which is none of the names the
\* if / elif chain knows
BadOption == "crop_asymmetric_ZYX"

\* the policies that read pad_size[0] only
ZSizedOptions ==
    {"pad_sym_Z_crop_sym_YX", "pad_sym_Z_crop_asym_YX", "pad_sym_Z"}

\* pad_size: absent, or [nbz, nby, nbx]
ZPadSizes ==
    {<<>>, <<4, 4, 4>>, <<6, 6, 6>>, <<5, 5, 5>>, <<22, 4, 4>>, <<70, 4, 4>>}

PadSizes ==
    ZPadSizes \cup {<<8, 4, 6>>, <<3, 3, 3>>, <<4, 22, 4>>, <<4, 4, 22>>}

PadSizesOf(fft_option) ==
    IF fft_option \in ZSizedOptions THEN ZPadSizes ELSE PadSizes

\* the detector: the full frame unbinned, or a ROI starting at (2, 1) binned
\* by 2 in the detector plane
FullDetector ==
    [roi |-> <<0, 0, 0, 0>>, preprocessing_binning |-> <<1, 1, 1>>,
     binning |-> <<1, 1, 1>>]

RoiDetector ==
    [roi |-> <<2, 0, 1, 0>>, preprocessing_binning |-> <<1, 1, 2>>,
     binning |-> <<1, 2, 1>>]

Detectors == {FullDetector, RoiDetector}

DetBin(det, k) == det.preprocessing_binning[k] * det.binning[k]

\* fix_bragg positions on the full detector whose image in the array lies
\* at most MaxShift voxels outside it
FixBraggs(sh, det) ==
    {<<z, y, x>> :
        z \in -MaxShift .. sh[1] + MaxShift - 1,
        y \in det.roi[1] - MaxShift * DetBin(det, 2)
                .. det.roi[1] + (sh[2] + MaxShift) * DetBin(det, 2) - 1,
        x \in det.roi[3] - MaxShift * DetBin(det, 3)
                .. det.roi[3] + (sh[3] + MaxShift) * DetBin(det, 3) - 1}

Args(data, frames, centering, fft_option, q_mode, pad_size, fix_bragg, det) ==
    [data |-> data, mask |-> MaskOf(data.shape), detector |-> det,
     frames_logical |-> frames, centering |-> centering,
     fft_option |-> fft_option, fix_bragg |-> fix_bragg,
     pad_size |-> pad_size, q_supplied |-> q_mode # "absent",
     q_values |-> QArg(q_mode, data.shape)]

\* The calls made: a is the argument record of one call of center_fft on
\* a volume of shape sh with frames_logical f.
\* Peak search on every volume, for the policies that read no pad_size
SearchCall(a, sh, f) ==
    \E d \in Volumes(sh), c \in Centerings, q \in {"none", "given"},
       o \in (FftOptions \ SizedOptions) \cup {BadOption} :
        a = Args(d, f, c, o, q, <<>>, <<>>, FullDetector)

\* The policies that read pad_size, on a volume holding one peak or none
SizedCall(a, sh, f) ==
    \E d \in OnePeakVolumes(sh) \cup {EmptyVolume(sh)},
       q \in {"none", "given"}, o \in SizedOptions :
        \E ps \in PadSizesOf(o) :
            a = Args(d, f, "max", o, q, ps, <<>>, FullDetector)

\* A peak position fixed by the caller, on the largest and smallest volumes
FixedCall(a, sh, f) ==
    /\ sh \in {<<MaxZ, MaxYX, MaxYX>>, <<2, 2, 2>>}
    /\ \E det \in Detectors, o \in FftOptions :
         \E fb \in FixBraggs(sh, det) :
            a = Args(Volume(sh, <<1, 1, 1>>, FALSE), f, "max", o, "given",
                     <<4, 4, 4>>, fb, det)

\* q_values left out of the call
PlainCall(a, sh, f) ==
    \E d \in OnePeakVolumes(sh), o \in FftOptions \cup {BadOption} :
        a = Args(d, f, "max", o, "absent", <<4, 4, 4>>, <<>>, FullDetector)

\* --------------------------------------------------------- PeakFinder
\* An optional value: None, or the value itself
None == [none |-> TRUE]
Some(x) == [none |-> FALSE, v |-> x]

PEAK_METHODS == {"max", "com", "max_com", "user", "skip"}

\* the keys of the dictionary find_peak returns
ComputedMethods == {"max", "com", "max_com"}

Fail(name) == [ok |-> FALSE, error |-> name]

\* [a * b for a, b in zip(peak, self.binning)]
_unbin(self, peak) == [k \in 1 .. 3 |-> peak[k] * self.binning[k]]

\* _offset(peak, frame): sign is 1 for "full_detector", -1 for
\* "region_of_interest"
_offset(self, peak, sign) ==
    <<peak[1],
      peak[2] + sign * self.region_of_interest[1],
      peak[3] + sign * self.region_of_interest[3]>>

get_indices_full_detector(self, position) ==
    _offset(self, _unbin(self, position), 1)

\* [a // b for a, b in zip(peak, self.binning)]
_bin(self, peak) == [k \in 1 .. 3 |-> peak[k] \div self.binning[k]]

get_indices_cropped_binned_detector(self, position) ==
    _bin(self, _offset(self, position, -1))

\* tuple(map(lambda x: int(np.rint(x)), position)): fails on NaN
RintPos(pos) == [k \in 1 .. 3 |-> RoundHalfEven(pos[k][1], pos[k][2])]

\* the dictionary find_peak returns, from the three positions found
PeaksDict(self, position_max, position_com, position_max_com) ==
    [m \in ComputedMethods |->
        get_indices_full_detector(self,
            IF m = "max" THEN position_max
            ELSE IF m = "com" THEN position_com
            ELSE position_max_com)]

\* find_peak, from index_max_com[1:] = center_of_mass(array[index, :, :])
FindPeakMaxCom(self, position_max, position_com, com) ==
    IF IsNaN(com[2]) \/ IsNaN(com[3]) THEN Fail("ValueError")
    ELSE [ok |-> TRUE,
          peaks |-> PeaksDict(self, position_max, position_com,
                              <<position_max[1],
                                RoundHalfEven(com[2][1], com[2][2]),
                                RoundHalfEven(com[3][1], com[3][2])>>)]

\* find_peak, from position_com = center_of_mass(array)
FindPeakCom(self, position_max, com) ==
    IF \E k \in 1 .. 3 : IsNaN(com[k]) THEN Fail("ValueError")
    ELSE FindPeakMaxCom(self, position_max, RintPos(com),
             center_of_mass(Slice3(self.array,
                                   <<position_max[1], position_max[1] + 1>>,
                                   Full(self.array.shape[2]),
                                   Full(self.array.shape[3]))))

find_peak(self) ==
    FindPeakCom(self, Unravel(ArgMax(self.array), self.array.shape),
                center_of_mass(self.array))

\* self.peaks[self.peak_method]: a KeyError for a method find_peak did not
\* compute
bragg_peak(self) ==
    IF self.peak_method \in DOMAIN self._peaks
    THEN [ok |-> TRUE, v |-> self._peaks[self.peak_method]]
    ELSE Fail("KeyError")

\* _roi_center: the first index is the Bragg peak's, not divided by the
\* binning
RoiCenterOf(self, peak) ==
    <<peak[1],
      (peak[2] - self.region_of_interest[1]) \div self.binning[2],
      (peak[3] - self.region_of_interest[3]) \div self.binning[3]>>

_roi_center(self) ==
    IF bragg_peak(self).ok
    THEN [ok |-> TRUE, v |-> RoiCenterOf(self, bragg_peak(self).v)]
    ELSE Fail("KeyError")

\* array[i, :, :]
Frame(array, i) ==
    [shape |-> <<array.shape[2], array.shape[3]>>,
     v |-> [p \in (0 .. array.shape[2] - 1) \X (0 .. array.shape[3] - 1) |->
              array.v[<<i, p[1], p[2]>>]]]

\* the metadata property
metadata(self) ==
    IF ~bragg_peak(self).ok THEN Fail("KeyError")
    ELSE [ok |-> TRUE,
          v |-> [bragg_peak |-> self._peaks[self.peak_method],
                 peaks |-> self._peaks,
                 rocking_curve |-> self._rocking_curve,
                 detector_data_at_peak |-> self._detector_data_at_peak,
                 tilt_values |-> self._tilt_values,
                 interp_tilt_values |-> self._interp_tilt_values,
                 interp_rocking_curve |-> self._interp_rocking_curve,
                 interp_fwhm |-> self._interp_fwhm,
                 tilt_value_at_peak |-> self._tilt_value_at_peak]]

\* __init__, the attributes set before find_peak is called
InitFields(in) ==
    [array |-> in.array,
     region_of_interest |->
        IF in.region_of_interest.none
        THEN <<0, in.array.shape[2], 0, in.array.shape[3]>>
        ELSE in.region_of_interest.v,
     binning |-> IF in.binning.none THEN <<1, 1, 1>> ELSE in.binning.v,
     peak_method |-> in.peak_method,
     frames_pattern |-> in.frames_pattern]

WithPeaks(self, peaks) ==
    [array |-> self.array,
     region_of_interest |-> self.region_of_interest,
     binning |-> self.binning,
     peak_method |-> self.peak_method,
     frames_pattern |-> self.frames_pattern,
     _peaks |-> peaks]

\* __init__, from self._rocking_curve = None
InitRest(self, i) ==
    [ok |-> TRUE,
     self |-> [array |-> self.array,
               region_of_interest |-> self.region_of_interest,
               binning |-> self.binning,
               peak_method |-> self.peak_method,
               frames_pattern |-> self.frames_pattern,
               _peaks |-> self._peaks,
               _rocking_curve |-> None,
               _detector_data_at_peak |-> Some(Frame(self.array, i)),
               _tilt_values |-> None,
               _interp_tilt_values |-> None,
               _interp_rocking_curve |-> None,
               _interp_fwhm |-> None,
               _tilt_value_at_peak |-> None]]

\* __init__, self.array[self._roi_center[0], :, :]
InitDetectorData(self, center) ==
    IF ~center.ok THEN Fail(center.error)
    ELSE IF center.v[1] >= self.array.shape[1] THEN Fail("IndexError")
    ELSE InitRest(self, center.v[1])

InitPeaks(fields, found) ==
    IF ~found.ok THEN Fail(found.error)
    ELSE InitDetectorData(WithPeaks(fields, found.peaks),
                          _roi_center(WithPeaks(fields, found.peaks)))

\* PeakFinder(array, region_of_interest, binning, peak_method,
\* frames_pattern=...)
PeakFinder(in) ==
    IF in.peak_method \notin PEAK_METHODS THEN Fail("ValueError")
    ELSE InitPeaks(InitFields(in), find_peak(InitFields(in)))

\* the peak_method setter
peak_method_setter(self, value) ==
    IF value \notin PEAK_METHODS
    THEN [ok |-> FALSE, error |-> "ValueError", self |-> self]
    ELSE [ok |-> TRUE, self |-> [self EXCEPT !.peak_method = value]]

\* self.array.sum(axis=(1, 2))
RockingCurve(array) ==
    [i \in 0 .. array.shape[1] - 1 |->
        SumOver(array.shape[2] * array.shape[3],
                LAMBDA j : array.v[<<i, j \div array.shape[3],
                                     j % array.shape[3]>>])]

_get_rocking_curve(self) ==
    IF ~bragg_peak(self).ok
    THEN [ok |-> FALSE, error |-> "KeyError", self |-> self]
    ELSE [ok |-> TRUE,
          self |-> [self EXCEPT
                       !._rocking_curve = Some(RockingCurve(self.array))]]

\* np.arange(n)
Arange(n) == [i \in 0 .. n - 1 |-> i]

\* the i-th (from 0) index of vec, in increasing order, that keep selects
RECURSIVE NthKept(_, _, _)
NthKept(keep, i, from) ==
    IF keep[from] = 1
    THEN IF i = 0 THEN from ELSE NthKept(keep, i - 1, from + 1)
    ELSE NthKept(keep, i, from + 1)

CountKept(keep) == Cardinality({i \in DOMAIN keep : keep[i] = 1})

\* x_axis[self.frames_pattern == 1]: a list compares unequal to 1 as a
\* whole, and x_axis[False] has length 0; an array gives a boolean mask,
\* which must be as long as x_axis
MaskAxis(x_axis, frames_pattern) ==
    IF frames_pattern.kind = "list" THEN [ok |-> TRUE, v |-> <<>>]
    ELSE IF VLen(frames_pattern.v) # VLen(x_axis) THEN Fail("IndexError")
    ELSE [ok |-> TRUE,
          v |-> [i \in 0 .. CountKept(frames_pattern.v) - 1 |->
                    x_axis[NthKept(frames_pattern.v, i, 0)]]]

XAxis(self, x_axis) ==
    IF self.frames_pattern.none THEN [ok |-> TRUE, v |-> x_axis]
    ELSE MaskAxis(x_axis, self.frames_pattern.v)

\* the cubic interpolation needs four points at least; the fitted values
\* are kept as the grid they are computed on
MinCubicPoints == 4

Interpolated(self, x_axis) ==
    [self EXCEPT
        !._interp_tilt_values =
            Some([start |-> x_axis[0], stop |-> x_axis[VLen(x_axis) - 1],
                  num |-> 5 * self.array.shape[1]]),
        !._interp_rocking_curve = Some([num |-> 5 * self.array.shape[1]]),
        !._interp_fwhm =
            Some([span |-> x_axis[VLen(x_axis) - 1] - x_axis[0],
                  steps |-> 5 * self.array.shape[1] - 1])]

\* _fit_rocking_curve, from len(x_axis) != len(rocking_curve)
FitAxis(self, x_axis) ==
    IF ~x_axis.ok THEN [ok |-> FALSE, error |-> x_axis.error, self |-> self]
    ELSE IF VLen(x_axis.v) # VLen(self._rocking_curve.v)
    THEN [ok |-> TRUE, self |-> self]
    ELSE IF VLen(x_axis.v) < MinCubicPoints
    THEN [ok |-> FALSE, error |-> "ValueError", self |-> self]
    ELSE [ok |-> TRUE, self |-> Interpolated(self, x_axis.v)]

\* _fit_rocking_curve, from rocking_curve = self.metadata.get(...)
FitCurve(self, tilt_values) ==
    IF ~metadata(self).ok
    THEN [ok |-> FALSE, error |-> "KeyError", self |-> self]
    ELSE IF self._rocking_curve.none THEN [ok |-> TRUE, self |-> self]
    ELSE FitAxis(self,
                 XAxis(self, IF tilt_values.none
                             THEN Arange(VLen(self._rocking_curve.v))
                             ELSE tilt_values.v))

\* _fit_rocking_curve, self._tilt_value_at_peak = tilt_values[...]
FitTiltAtPeak(self, tilt_values, center) ==
    IF tilt_values.none
    THEN FitCurve([self EXCEPT !._tilt_value_at_peak = None], tilt_values)
    ELSE IF ~center.ok
    THEN [ok |-> FALSE, error |-> center.error, self |-> self]
    ELSE IF center.v[1] >= VLen(tilt_values.v)
    THEN [ok |-> FALSE, error |-> "IndexError", self |-> self]
    ELSE FitCurve([self EXCEPT !._tilt_value_at_peak =
                                   Some(tilt_values.v[center.v[1]])],
                  tilt_values)

_fit_rocking_curve(self, tilt_values) ==
    FitTiltAtPeak([self EXCEPT !._tilt_values = tilt_values], tilt_values,
                  _roi_center(self))

FitAfterCurve(got, tilt_values) ==
    IF ~got.ok THEN got ELSE _fit_rocking_curve(got.self, tilt_values)

\* fit_rocking_curve(tilt_values)
fit_rocking_curve(self, tilt_values) ==
    FitAfterCurve(_get_rocking_curve(self), tilt_values)

\* -------------------------------------------------- PeakFinder inputs
\* The arrays a PeakFinder is built on: one peak anywhere, one peak and a
\* hot pixel, or no intensity at all
FinderShapes == {<<MaxZ, 2, 2>>, <<2, 1, 2>>}

FinderArrays(sh) ==
    OnePeakVolumes(sh)
        \cup {EmptyVolume(sh), Volume(sh, <<0, 0, 0>>, TRUE)}

\* region_of_interest and binning: both left out; a ROI starting at (2, 1);
\* that ROI binned by 2 in the detector plane; a binning of the rocking axis
Geometries(sh) ==
    {[region_of_interest |-> None, binning |-> None],
     [region_of_interest |-> Some(<<2, 2 + sh[2], 1, 1 + sh[3]>>),
      binning |-> None],
     [region_of_interest |-> Some(<<2, 2 + 2 * sh[2], 1, 1 + 2 * sh[3]>>),
      binning |-> Some(<<1, 2, 2>>)],
     [region_of_interest |-> None, binning |-> Some(<<2, 1, 1>>)]}

\* peak_method: the five allowed names and one that is not
BadMethod == "centroid"
PeakMethods == PEAK_METHODS \cup {BadMethod}

\* frames_pattern of n frames: all measured, or the second one skipped
AllFrames(n) == [i \in 0 .. n - 1 |-> 1]
SecondSkipped(n) == [i \in 0 .. n - 1 |-> IF i = 1 THEN 0 ELSE 1]

\* frames_pattern: left out, or a list or an array, for a dataset of the
\* array's length or of one frame more
FramesPatterns(nz) ==
    {None} \cup
    {Some([kind |-> k, v |-> p]) :
        k \in {"list", "ndarray"},
        p \in {AllFrames(nz), SecondSkipped(nz + 1)}}

\* tilt_values of n frames
TiltOf(n) == [i \in 0 .. n - 1 |-> 10 + 2 * i]

\* tilt_values: left out, or the angles of 1, MaxZ or MaxZ + 1 frames
TiltValues == {None} \cup {Some(TiltOf(n)) : n \in {1, MaxZ, MaxZ + 1}}

FinderArgs(array, geometry, peak_method, frames_pattern) ==
    [array |-> array,
     region_of_interest |-> geometry.region_of_interest,
     binning |-> geometry.binning,
     peak_method |-> peak_method,
     frames_pattern |-> frames_pattern]

\* ---------------------------------------------------------- regridders
\* The regular grid is kept flat: voxel 0 .. NVoxels - 1. A value of a
\* float array is <<numerator, denominator>>, NaN with denominator 0. The
\* geometry of a measurement gives, per voxel of the grid, the set of input
\* samples that contribute to it.
NaN == <<0, 0>>
Zero == <<0, 1>>
One == <<1, 1>>

\* the mean of the samples in the set s: NaN as soon as one of them is
RECURSIVE SumOf(_, _)
SumOf(samples, s) ==
    IF s = {} THEN 0
    ELSE LET i == CHOOSE j \in s : TRUE
         IN  samples[i][1] + SumOf(samples, s \ {i})

MeanOf(samples, s) ==
    IF \E i \in s : IsNaN(samples[i]) THEN NaN
    ELSE <<SumOf(samples, s), Cardinality(s)>>

\* setup.ortho_reciprocal(arrays=(data, mask), fill_value=fill_value, ...)
\* for one array: a voxel inside the interpolation range is interpolated
\* from the samples around it, a voxel outside it takes the fill value
ortho_reciprocal(samples, geometry, fill) ==
    [v \in DOMAIN geometry |->
        IF geometry[v] = {} THEN fill ELSE MeanOf(samples, geometry[v])]

\* gridder(qx, qz, qy, array, width=...); gridder.data: the normalised sum
\* of the samples spread over each bin; a bin nothing was spread over holds
\* the value empty
FuzzyGridder3D(samples, geometry, empty) ==
    [v \in DOMAIN geometry |->
        IF geometry[v] = {} THEN empty ELSE MeanOf(samples, geometry[v])]

\* the mask left as it is where the data is NaN
FoldNaNDataSkipped(interp_data, interp_mask) == interp_mask

\* interp_mask[np.isnan(interp_data)] = 1
FoldNaNData(interp_data, interp_mask) ==
    [v \in DOMAIN interp_mask |->
        IF IsNaN(interp_data[v]) THEN One ELSE interp_mask[v]]

\* interp_data[np.isnan(interp_data)] = 0
ZeroNaNData(interp_data) ==
    [v \in DOMAIN interp_data |->
        IF IsNaN(interp_data[v]) THEN Zero ELSE interp_data[v]]

\* interp_mask[np.isnan(interp_mask)] = 1
FoldNaNMask(interp_mask) ==
    [v \in DOMAIN interp_mask |->
        IF IsNaN(interp_mask[v]) THEN One ELSE interp_mask[v]]

\* interp_mask[np.nonzero(interp_mask)] = 1
Binarize(interp_mask) ==
    [v \in DOMAIN interp_mask |->
        IF interp_mask[v][1] # 0 THEN One ELSE interp_mask[v]]

\* interp_mask.astype(int): the fraction is cut off
AsTypeInt(interp_mask) ==
    [v \in DOMAIN interp_mask |-> interp_mask[v][1] \div interp_mask[v][2]]

\* interp_data[np.nonzero(interp_mask)] = 0
ApplyMask(interp_data, interp_mask) ==
    [v \in DOMAIN interp_data |->
        IF interp_mask[v] # 0 THEN Zero ELSE interp_data[v]]

Gridded(interp_data, interp_mask) ==
    [status |-> "ok",
     interp_data |-> ApplyMask(interp_data, interp_mask),
     interp_mask |-> interp_mask]

\* grid_bcdi_labframe, from "check for Nan"
LabframeChecked(interp_data, interp_mask) ==
    Gridded(ZeroNaNData(interp_data),
            AsTypeInt(Binarize(FoldNaNMask(
                FoldNaNData(interp_data, interp_mask)))))

\* fill_value = kwargs.get("fill_value", (0, 0))
KwargFillValue(in) ==
    IF in.fill_value.none THEN <<Zero, Zero>> ELSE in.fill_value.v

grid_bcdi_labframe(in) ==
    IF in.rocking_angle = "energy"
    THEN [status |-> "error", error |-> "NotImplementedError"]
    ELSE LabframeChecked(
             ortho_reciprocal(in.data, in.geometry, KwargFillValue(in)[1]),
             ortho_reciprocal(in.mask, in.geometry, KwargFillValue(in)[2]))

\* grid_bcdi_xrayutil, from "check for Nan"
XrayutilChecked(interp_data, interp_mask) ==
    Gridded(ZeroNaNData(interp_data),
            AsTypeInt(FoldNaNMask(FoldNaNData(interp_data, interp_mask))))

\* maxbins.append(int(abs(dim.max() - dim.min()) / maxstep)), for a
\* coordinate given by its range and its largest sampling step
MaxBin(dim) == dim.range \div dim.maxstep

\* for dim in (qx, qy, qz): ...; maxbins = util.smaller_primes(maxbins, ...)
MaxBins(q) ==
    <<smaller_primes(MaxBin(q.qx)), smaller_primes(MaxBin(q.qy)),
      smaller_primes(MaxBin(q.qz))>>

\* gridder = xu.FuzzyGridder3D(*maxbins) and gridder(qx, qz, qy, array,
\* width=(wx, wz, wy)): per axis of the gridder, the coordinate gridded
\* along it, its number of bins and the width of a data point, with
\* wx = range(qx) / maxbins[0], wy = range(qy) / maxbins[1],
\* wz = range(qz) / maxbins[2]
GridderAxes(q, maxbins) ==
    <<[coordinate |-> "qx", bins |-> maxbins[1],
       width |-> <<q.qx.range, maxbins[1]>>],
      [coordinate |-> "qz", bins |-> maxbins[2],
       width |-> <<q.qz.range, maxbins[3]>>],
      [coordinate |-> "qy", bins |-> maxbins[3],
       width |-> <<q.qy.range, maxbins[2]>>]>>

XrayutilReturn(checked, axes) ==
    [status |-> "ok", interp_data |-> checked.interp_data,
     interp_mask |-> checked.interp_mask, gridder |-> axes]

grid_bcdi_xrayutil(in, empty) ==
    IF \E k \in 1 .. 3 : MaxBins(in.q)[k] = NoSize
    THEN [status |-> "error", error |-> "ValueError"]
    ELSE XrayutilReturn(
             XrayutilChecked(FuzzyGridder3D(in.data, in.geometry, empty),
                             FuzzyGridder3D(in.mask, in.geometry, empty)),
             GridderAxes(in.q, MaxBins(in.q)))

\* --------------------------------------------------- regridder inputs
NSamples == 3        \* input samples of a measurement
NVoxels == 3         \* voxels of the regular grid

SampleIds == 0 .. NSamples - 1
VoxelIds == 0 .. NVoxels - 1

\* detector data: no intensity, a peak, or NaN
DataSamples == [SampleIds -> {Zero, <<PeakValue, 1>>, NaN}]

\* the mask of the detector data: 0 or 1
MaskSamples == [SampleIds -> {Zero, One}]

\* which samples the voxels of the grid collect: one each; none for the
\* first voxel and two for the second; all for the first voxel and none
\* for the others; none at all
GridGeometries ==
    {[v \in VoxelIds |-> {v} \cap SampleIds],
     [v \in VoxelIds |-> IF v = 0 THEN {} ELSE IF v = 1 THEN {0, 1}
                                            ELSE SampleIds \ {0, 1}],
     [v \in VoxelIds |-> IF v = 0 THEN SampleIds ELSE {}],
     [v \in VoxelIds |-> {}]}

\* fill_value: left out, or (data, mask) fill values
FillValues == {None, Some(<<Zero, One>>), Some(<<NaN, NaN>>), Some(<<One, Zero>>)}

\* the value of a bin of the gridder nothing was spread over
EmptyBinValues == {Zero, NaN}

GridArgs(regridder, data, mask, geometry, fill_value, rocking_angle) ==
    [regridder |-> regridder, data |-> data, mask |-> mask,
     geometry |-> geometry, fill_value |-> fill_value,
     rocking_angle |-> rocking_angle]

LabframeCall(a) ==
    \E d \in DataSamples, m \in MaskSamples, g \in GridGeometries :
        \/ \E f \in FillValues :
              a = GridArgs("labframe", d, m, g, f, "outofplane")
        \/ a = GridArgs("labframe", d, m, g, None, "energy")

\* a coordinate of the measurement: the range it spans and its largest
\* step between neighbouring samples
Sampled(range, maxstep) == [range |-> range, maxstep |-> maxstep]

\* the sampling of qx, qz, qy: 8, 6 and 4 steps; 4 steps each; 4, 7 and
\* 10 steps; a single step along qx
QSamplings ==
    {[qx |-> Sampled(8, 1), qz |-> Sampled(12, 2), qy |-> Sampled(8, 2)],
     [qx |-> Sampled(8, 2), qz |-> Sampled(8, 2), qy |-> Sampled(8, 2)],
     [qx |-> Sampled(9, 2), qz |-> Sampled(7, 1), qy |-> Sampled(10, 1)],
     [qx |-> Sampled(3, 2), qz |-> Sampled(8, 2), qy |-> Sampled(8, 2)]}

XrayutilCall(a) ==
    \E d \in DataSamples, m \in MaskSamples, g \in GridGeometries,
       q \in QSamplings :
        a = [regridder |-> "xrayutil", data |-> d, mask |-> m,
             geometry |-> g, q |-> q]

\* ------------------------------------------------ phase manipulation
\* The phase of the reconstructed object is sampled at three voxels along
\* one axis, in units where one turn (2 pi) is Period.  PhaseManipulator
\* is bcdi.postprocessing.analysis.PhaseManipulator: fields modulus,
\* phase, ramp (the fitted gradient, None before the fit), extent_phase.
Period == 8

PhaseVoxels == 1 .. 3

Wrap(x) == ((x + Period \div 2) % Period) - Period \div 2

MaxOf(S) == CHOOSE x \in S : \A y \in S : y <= x
MinOf(S) == CHOOSE x \in S : \A y \in S : x <= y

Extent(phase) ==
    LET S == {phase[i] : i \in 1 .. Len(phase)}
    IN  Period * (((MaxOf(S) - MinOf(S)) \div Period) + 1)

\* the voxels are walked in order and each jump of more than half a
\* turn between neighbours is taken out
Unwrapped(phase) ==
    LET second == phase[1] + Wrap(phase[2] - phase[1])
    IN  <<phase[1], second, second + Wrap(phase[3] - phase[2])>>

unwrap_phase(pm) ==
    [pm EXCEPT !.phase = Unwrapped(pm.phase),
               !.extent_phase = Extent(Unwrapped(pm.phase))]

\* the least-squares gradient through three equally spaced voxels
FittedRamp(phase) == (phase[3] - phase[1]) \div 2

RampAt(slope, i) == slope * (i - 2)

remove_ramp(pm) ==
    [pm EXCEPT !.ramp = Some(FittedRamp(pm.phase)),
               !.phase = [i \in PhaseVoxels |->
                            pm.phase[i] - RampAt(FittedRamp(pm.phase), i)]]

\* the stored gradient is put back (sign = 1) or taken out (sign = -1);
\* nothing is fitted again
add_ramp(pm, sign) ==
    [pm EXCEPT !.phase = [i \in PhaseVoxels |->
                            pm.phase[i] + sign * RampAt(pm.ramp.v, i)]]

\* remove_offset followed by center_phase: the phase at the centre of the
\* support becomes 0 and the phase is wrapped around it
remove_offset(pm) ==
    [pm EXCEPT !.phase = [i \in PhaseVoxels |->
                            Wrap(pm.phase[i] - pm.phase[2])]]

\* the mean over a window of one voxel on each side, edges kept
average_phase(pm) ==
    [pm EXCEPT !.phase[2] = (pm.phase[1] + pm.phase[2] + pm.phase[3]) \div 3]

\* the window damps the edges of the object
apodize(pm) ==
    [pm EXCEPT !.phase[1] = pm.phase[1] \div 2,
               !.phase[3] = pm.phase[3] \div 2]

\* ------------------------------------------------------ state machine
VARIABLES
    args,   \* the arguments of the call of center_fft
    ret,    \* what the call returned, or the error it raised
    pc,     \* where the caller is: "call" before the call, "done" after it
    peakfinder,  \* the PeakFinder object, None while there is none
    scan    \* process_scan: the prm dictionary and the locals of the running
            \* scan; run: the scans attempted so far; None elsewhere

vars == <<args, ret, pc, peakfinder, scan>>

Pending == [status |-> "pending"]

Init ==
    /\ pc = "call"
    /\ ret = Pending
    /\ peakfinder = None
    /\ scan = None
    /\ \E sh \in Shapes :
         LET f == FramesOf(sh[1])
         IN  \/ SearchCall(args, sh, f)
             \/ SizedCall(args, sh, f)
             \/ FixedCall(args, sh, f)
             \/ PlainCall(args, sh, f)

\* the call of center_fft, from entry to return or error
Call ==
    /\ pc = "call"
    /\ ret' = center_fft(args)
    /\ pc' = "done"
    /\ UNCHANGED <<scan, args, peakfinder>>

Next == Call

Spec == Init /\ [][Next]_vars

\* ------------------------------------------ PeakFinder state machine
\* what an operation of the PeakFinder did: it returned, or raised
Outcome(op, r) ==
    IF r.ok THEN [op |-> op, status |-> "ok"]
    ELSE [op |-> op, status |-> "error", error |-> r.error]

InitFinder ==
    /\ pc = "new"
    /\ ret = Pending
    /\ peakfinder = None
    /\ scan = None
    /\ \E sh \in FinderShapes :
         \E a \in FinderArrays(sh), g \in Geometries(sh), m \in PeakMethods,
            f \in FramesPatterns(sh[1]) :
            args = FinderArgs(a, g, m, f)

Constructed(r) ==
    /\ peakfinder' = IF r.ok THEN r.self ELSE None
    /\ pc' = IF r.ok THEN "ready" ELSE "failed"
    /\ ret' = Outcome("__init__", r)

\* peakfinder = PeakFinder(array, ...)
Construct ==
    /\ pc = "new"
    /\ Constructed(PeakFinder(args))
    /\ UNCHANGED <<scan, args>>

\* peakfinder.peak_method = value
Assigned(r) ==
    /\ peakfinder' = r.self
    /\ ret' = Outcome("peak_method", r)

SetPeakMethod ==
    /\ pc = "ready"
    /\ \E value \in PeakMethods : Assigned(peak_method_setter(peakfinder, value))
    /\ UNCHANGED <<scan, args, pc>>

Read(op, r) ==
    ret' = IF r.ok THEN [op |-> op, status |-> "ok", value |-> r.v]
           ELSE [op |-> op, status |-> "error", error |-> r.error]

\* peakfinder.bragg_peak
GetBraggPeak ==
    /\ pc = "ready"
    /\ Read("bragg_peak", bragg_peak(peakfinder))
    /\ UNCHANGED <<scan, args, pc, peakfinder>>

\* peakfinder.metadata
GetMetadata ==
    /\ pc = "ready"
    /\ Read("metadata", metadata(peakfinder))
    /\ UNCHANGED <<scan, args, pc, peakfinder>>

Fitted(r, tilt_values) ==
    /\ peakfinder' = r.self
    /\ ret' = IF r.ok
              THEN [op |-> "fit_rocking_curve", status |-> "ok",
                    tilt_values |-> tilt_values]
              ELSE [op |-> "fit_rocking_curve", status |-> "error",
                    error |-> r.error, tilt_values |-> tilt_values]

\* peakfinder.fit_rocking_curve(tilt_values=tilt_values)
FitRockingCurve ==
    /\ pc = "ready"
    /\ \E tilt_values \in TiltValues :
         Fitted(fit_rocking_curve(peakfinder, tilt_values), tilt_values)
    /\ UNCHANGED <<scan, args, pc>>

NextFinder ==
    \/ Construct
    \/ SetPeakMethod
    \/ GetBraggPeak
    \/ GetMetadata
    \/ FitRockingCurve

SpecFinder == InitFinder /\ [][NextFinder]_vars

\* ------------------------------------------- regridder state machine
InitGrid ==
    /\ pc = "grid"
    /\ ret = Pending
    /\ peakfinder = None
    /\ scan = None
    /\ (LabframeCall(args) \/ XrayutilCall(args))

\* the call of grid_bcdi_labframe
GridLabframe ==
    /\ pc = "grid"
    /\ args.regridder = "labframe"
    /\ ret' = grid_bcdi_labframe(args)
    /\ pc' = "gridded"
    /\ UNCHANGED <<scan, args, peakfinder>>

\* the call of grid_bcdi_xrayutil
GridXrayutil ==
    /\ pc = "grid"
    /\ args.regridder = "xrayutil"
    /\ \E empty \in EmptyBinValues : ret' = grid_bcdi_xrayutil(args, empty)
    /\ pc' = "gridded"
    /\ UNCHANGED <<scan, args, peakfinder>>

NextGrid == GridLabframe \/ GridXrayutil

SpecGrid == InitGrid /\ [][NextGrid]_vars

\* ------------------------------------------ process_scan state machine
\* process_scan(scan_idx, prm) of bcdi/postprocessing/process_scan.py, one
\* action per block of the function.  scan.prm is the dictionary the caller
\* passed (the same object, so what the function stores in it stays), the
\* other fields of scan are the function's locals; calls lists the phase
\* operations in the order they ran.
Unbound == None

PhaseSamples == {<<0, 2, 4>>, <<1, 7, 6>>, <<0, -3, 1>>}

ScanNumbers == <<11, 12>>

\* Setup(...): the wavelength follows from the energy (None without one),
\* in units where h c = 1
Setup(prm) ==
    [wavelength |-> IF prm.energy.none THEN None
                    ELSE Some(<<1, prm.energy.v>>),
     inplane_angle |-> prm.inplane_angle]

ScanPrm ==
    [scans : {ScanNumbers}, sample_name : {<<"S", "S">>}, sample : {None},
     skip_unwrap : BOOLEAN, half_width_avg_phase : {0, 1},
     apodize : BOOLEAN, data_frame : {"detector", "crystal", "laboratory"},
     invert_phase : BOOLEAN, correct_refraction : BOOLEAN,
     energy : {None, Some(9)}, bragg_peak : {None, Some(<<1, 1, 1>>)},
     inplane_angle : {0}, transformation_matrix : {None}]

ScanArgs ==
    [scan_idx : {1}, prm : ScanPrm, phase : PhaseSamples,
     direct_beam : BOOLEAN, q_file : BOOLEAN]

\* the frame of process_scan at its first statement
Entered(prm) ==
    [prm |-> prm, calls |-> <<>>, setup |-> Unbound,
     phase_manipulator |-> Unbound, held |-> Unbound, saved |-> Unbound,
     analysis |-> Unbound, obj_ortho |-> Unbound, phase |-> Unbound,
     extent_phase |-> Unbound, strain |-> Unbound]

InitScan ==
    /\ pc = "setup"
    /\ ret = Pending
    /\ peakfinder = None
    /\ args \in ScanArgs
    /\ (args.prm.data_frame = "detector" => args.q_file)
    /\ scan = Entered(args.prm)

Goto(next, frame) ==
    /\ pc' = next
    /\ scan' = frame
    /\ UNCHANGED <<args, ret, peakfinder>>

Abort(error) ==
    /\ pc' = "raised"
    /\ ret' = [status |-> "error", error |-> error, at |-> pc]
    /\ UNCHANGED <<args, peakfinder, scan>>

Calls(frame, names) == [frame EXCEPT !.calls = @ \o names]

\* lines 58-153: prm["sample"], the Setup, the Analysis and its
\* phase manipulator
Enter ==
    /\ pc = "setup"
    /\ Goto("phase",
            [scan EXCEPT
               !.prm.sample = Some(<<scan.prm.sample_name,
                                     scan.prm.scans[args.scan_idx]>>),
               !.setup = Some(Setup(scan.prm)),
               !.analysis = Some([data |-> args.phase,
                                  extent_phase |-> Period]),
               !.phase_manipulator =
                   Some([phase |-> args.phase, ramp |-> None,
                         extent_phase |-> Period])])

FirstUnwrap(prm, pm) ==
    IF prm.skip_unwrap THEN pm ELSE remove_offset(unwrap_phase(pm))

Averaged(prm, pm) ==
    IF prm.half_width_avg_phase # 0 THEN average_phase(pm) ELSE pm

\* lines 155-177: unwrap, ramp removal, offset removal, averaging
PreparePhase ==
    /\ pc = "phase"
    /\ Goto("add_ramp",
            Calls([scan EXCEPT !.phase_manipulator =
                     Some(Averaged(scan.prm,
                          remove_offset(remove_ramp(
                              FirstUnwrap(scan.prm,
                                          scan.phase_manipulator.v)))))],
                  (IF scan.prm.skip_unwrap THEN <<>>
                   ELSE <<"unwrap_phase", "center_phase">>)
                  \o <<"remove_ramp", "remove_offset", "center_phase">>
                  \o (IF scan.prm.half_width_avg_phase # 0
                      THEN <<"average_phase">> ELSE <<>>)))

Apodized(prm, pm) == IF prm.apodize THEN apodize(pm) ELSE pm

\* lines 183-192: the ramp is put back, the object is apodized and saved
\* for the prtf; held keeps the phase as it was before add_ramp()
PutBackRamp ==
    /\ pc = "add_ramp"
    /\ LET pm == Apodized(scan.prm, add_ramp(scan.phase_manipulator.v, 1))
       IN  Goto("remove_again",
                Calls([scan EXCEPT !.held = Some(scan.phase_manipulator.v.phase),
                                   !.phase_manipulator = Some(pm),
                                   !.saved = Some(pm.phase)],
                      <<"add_ramp">>
                      \o (IF scan.prm.apodize THEN <<"apodize">> ELSE <<>>)
                      \o <<"savez">>))

RampKept(pm) == pm

Refitted(pm) == remove_ramp(pm)

RemovedAgain(pm) == add_ramp(pm, -1)

\* lines 197-225: the ramp is taken out again, the Analysis gets modulus
\* and phase, the phase manipulator is deleted
RemoveRampAgain ==
    /\ pc = "remove_again"
    /\ LET pm == RemovedAgain(scan.phase_manipulator.v)
       IN  Goto("angles",
                Calls([scan EXCEPT
                         !.analysis = Some([data |-> pm.phase,
                                            extent_phase |-> pm.extent_phase]),
                         !.phase_manipulator = Unbound],
                      <<"add_ramp(sign=-1)", "update_data">>))

RetrievedPeak == <<2, 1, 1>>

\* analysis.update_parameters stores into the dictionary the Analysis was
\* built with, which is prm (line 237 reads the peak back from prm)
AnglesCorrected(frame) ==
    [frame EXCEPT
       !.prm.bragg_peak = IF @.none THEN Some(RetrievedPeak) ELSE @,
       !.setup.v.inplane_angle = @ + 1,
       !.prm.inplane_angle = frame.setup.v.inplane_angle + 1]

\* lines 230-243: the detector angles are corrected for the direct beam
CorrectDetectorAngles ==
    /\ pc = "angles"
    /\ Goto("ortho", IF args.direct_beam THEN AnglesCorrected(scan) ELSE scan)

\* the complex object keeps its phase within one turn
ComplexPhase(phase) == [i \in PhaseVoxels |-> Wrap(phase[i])]

TransferMatrix == <<1, 0, 0>>

\* lines 285-407: the object goes to the orthogonal frame, through
\* setup.ortho_directspace when it is still in the detector frame; the
\* name phase is deleted on the way wherever it was assigned
Orthogonalize ==
    /\ pc = "ortho"
    /\ IF scan.prm.data_frame = "detector"
       THEN Goto("unwrap",
                 Calls([scan EXCEPT
                          !.obj_ortho = Some(ComplexPhase(scan.analysis.v.data)),
                          !.prm.transformation_matrix = Some(TransferMatrix)],
                       <<"ortho_directspace">>))
       ELSE IF ~args.q_file
       THEN Abort("FileNotFoundError")
       ELSE Goto("unwrap",
                 [scan EXCEPT
                    !.obj_ortho = Some(ComplexPhase(scan.analysis.v.data))])

\* lines 418-429
UnwrapOrtho ==
    /\ pc = "unwrap"
    /\ Goto("invert",
            IF scan.prm.skip_unwrap THEN scan
            ELSE [scan EXCEPT
                    !.phase = Some(Unwrapped(scan.obj_ortho.v)),
                    !.extent_phase =
                        Some(Extent(Unwrapped(scan.obj_ortho.v)))])

\* lines 434-435
InvertPhase ==
    /\ pc = "invert"
    /\ IF ~scan.prm.invert_phase
       THEN Goto("refraction", scan)
       ELSE IF scan.phase.none
       THEN Abort("UnboundLocalError")
       ELSE Goto("refraction",
                 [scan EXCEPT
                    !.phase.v = [i \in PhaseVoxels |-> -scan.phase.v[i]]])

\* the optical path grows with the depth of the voxel in the crystal
PhaseCorrection(wavelength, i) == (i * wavelength[2]) \div wavelength[1]

RefractionSkipped ==
    /\ pc = "refraction"
    /\ Goto("ramp", scan)

\* lines 440-536
CorrectRefraction ==
    /\ pc = "refraction"
    /\ IF ~scan.prm.correct_refraction
       THEN Goto("ramp", scan)
       ELSE IF scan.setup.v.wavelength.none
       THEN Abort("ValueError")
       ELSE IF scan.phase.none
       THEN Abort("UnboundLocalError")
       ELSE Goto("ramp",
                 Calls([scan EXCEPT
                          !.phase.v = [i \in PhaseVoxels |->
                             scan.phase.v[i]
                             + PhaseCorrection(scan.setup.v.wavelength.v, i)]],
                       <<"phase_correction">>))

\* lines 541-552: pu.remove_ramp
RemoveRamp ==
    /\ pc = "ramp"
    /\ IF scan.phase.none
       THEN Abort("UnboundLocalError")
       ELSE Goto("offset",
                 Calls([scan EXCEPT
                          !.phase.v = [i \in PhaseVoxels |->
                             scan.phase.v[i]
                             - RampAt(FittedRamp(scan.phase.v), i)]],
                       <<"pu.remove_ramp">>))

\* util.wrap(obj, start_angle = -extent / 2, range_angle = extent)
WrapIn(x, extent) == ((x + extent \div 2) % extent) - extent \div 2

\* lines 557-577: pu.remove_offset, then the phase is wrapped around 0
RemoveOffset ==
    /\ pc = "offset"
    /\ IF scan.phase.none \/ scan.extent_phase.none
       THEN Abort("UnboundLocalError")
       ELSE Goto("strain",
                 Calls([scan EXCEPT
                          !.phase.v = [i \in PhaseVoxels |->
                             WrapIn(scan.phase.v[i] - scan.phase.v[2],
                                    scan.extent_phase.v)]],
                       <<"pu.remove_offset", "wrap">>))

\* lines 583-1007: the strain is the gradient of the phase; the results
\* are saved and the function returns
GetStrain ==
    /\ pc = "strain"
    /\ IF scan.phase.none \/ scan.extent_phase.none
       THEN Abort("UnboundLocalError")
       ELSE /\ pc' = "returned"
            /\ ret' = [status |-> "ok"]
            /\ scan' = Calls([scan EXCEPT
                                !.strain =
                                    Some(<<scan.phase.v[2] - scan.phase.v[1],
                                           scan.phase.v[3] - scan.phase.v[2]>>)],
                             <<"get_strain">>)
            /\ UNCHANGED <<args, peakfinder>>

NextScan ==
    \/ Enter
    \/ PreparePhase
    \/ PutBackRamp
    \/ RemoveRampAgain
    \/ CorrectDetectorAngles
    \/ Orthogonalize
    \/ UnwrapOrtho
    \/ InvertPhase
    \/ CorrectRefraction
    \/ RemoveRamp
    \/ RemoveOffset
    \/ GetStrain

SpecScan == InitScan /\ [][NextScan]_vars

\* ---------------------------------- preprocessing run state machine
\* run(prm) of bcdi/preprocessing/preprocessing_runner.py after the
\* configuration check: the loop over the scans.  args.failing holds the
\* indices of the scans whose processing raises; scan.scan_idx is the loop
\* variable, scan.attempted the indices process_scan was called with.
MaxScans == 4

nb_scans == Len(args.scans)

RunArgs ==
    {[scans |-> [i \in 1 .. n |-> 10 + i], failing |-> f] :
        <<n, f>> \in {p \in (1 .. MaxScans) \X SUBSET (1 .. MaxScans) :
                        p[2] \subseteq 1 .. p[1]}}

InitRun ==
    /\ pc = "process_scan"
    /\ ret = Pending
    /\ peakfinder = None
    /\ args \in RunArgs
    /\ scan = [scan_idx |-> 1, attempted |-> {}, moved |-> {}]

\* line 112: result = process_scan(scan_idx=scan_idx, prm=prm); what it
\* raises leaves run, nothing in run catches it
ProcessScan ==
    /\ pc = "process_scan"
    /\ scan' = [scan EXCEPT !.attempted = @ \cup {scan.scan_idx}]
    /\ IF scan.scan_idx \in args.failing
       THEN /\ pc' = "raised"
            /\ ret' = [status |-> "error", scan_idx |-> scan.scan_idx]
       ELSE /\ pc' = "move_log"
            /\ ret' = ret
    /\ UNCHANGED <<args, peakfinder>>

\* line 113: util.move_log(result), then the next turn of the loop of
\* line 111 or, after the last scan, the end of run
MoveLog ==
    /\ pc = "move_log"
    /\ scan' = [scan EXCEPT !.moved = @ \cup {scan.scan_idx},
                            !.scan_idx = @ + 1]
    /\ IF scan.scan_idx < nb_scans
       THEN /\ pc' = "process_scan"
            /\ ret' = ret
       ELSE /\ pc' = "finished"
            /\ ret' = [status |-> "ok"]
    /\ UNCHANGED <<args, peakfinder>>

NextRun == ProcessScan \/ MoveLog

\* run is sequential code: a statement that can run does run
SpecRun == InitRun /\ [][NextRun]_vars /\ WF_vars(NextRun)

\* ============================================================ claims
Done == pc = "done"
Returned == Done /\ ret.status = "ok"
Raised == Done /\ ret.status = "error"

\* the center was resolved: no error before the symmetric box is computed
Resolved == ResolveCenter(args).ok
ResolvedPeak == ResolveCenter(args).ipos
InVolume(ipos, sh) == \A k \in 1 .. 3 : ipos[k] >= 0 /\ ipos[k] < sh[k]
PeakInVolume == Resolved /\ InVolume(ResolvedPeak, args.data.shape)
Degenerate ==
    Resolved /\ \E k \in 1 .. 3 : MaxBox(ResolvedPeak, args.data.shape)[k] = 0
NonDegenerate == Resolved /\ ~Degenerate

\* the caller's frames_logical array holds what was passed in
FramesUntouched == ret.caller_frames = args.frames_logical

CallerSizedOptions ==
    {"pad_sym_Z", "pad_sym_Z_crop_sym_YX", "pad_sym_Z_crop_asym_YX",
     "pad_sym_ZYX"}
PaddedAxes(o) == IF o \in {"pad_sym_ZYX", "pad_asym_ZYX"} THEN {1, 2, 3} ELSE {1}
CropOptions ==
    {"crop_sym_ZYX", "crop_asym_ZYX", "pad_sym_Z_crop_sym_YX",
     "pad_sym_Z_crop_asym_YX", "pad_asym_Z_crop_sym_YX",
     "pad_asym_Z_crop_asym_YX"}
PadOptions == FftOptions \ {"crop_sym_ZYX", "crop_asym_ZYX", "skip"}
CroppedAxes(o) ==
    IF o \in {"crop_sym_ZYX", "crop_asym_ZYX"} THEN {1, 2, 3}
    ELSE IF o \in CropOptions THEN {2, 3} ELSE {}

\* the length on axis k of the block of input voxels the result holds
BlockLen(k) ==
    ret.data.shape[k] - ret.pad_width[2 * k - 1] - ret.pad_width[2 * k]

\* the policies that resize the three axes ('pad_sym_Z' and 'pad_asym_Z'
\* keep the detector size, whatever it is)
ResizingOptions == FftOptions \ {"skip", "pad_sym_Z", "pad_asym_Z"}

\* C1: for every fft_option other than 'skip', each axis length of the
\* returned data and mask is even and has no prime factor above 7 (stated
\* for the peak found in the data, for the policy that is applied, a
\* degenerate box applying 'skip', and for the policies that resize the
\* three axes)
C1_FFTCompatibleShape ==
    (Returned /\ ret.fft_option \in ResizingOptions /\ args.fix_bragg = <<>>)
        => /\ ret.mask.shape = ret.data.shape
           /\ \A k \in 1 .. 3 : FFTCompatible(ret.data.shape[k])

\* C2: with fft_option = 'skip' center_fft returns its inputs unchanged and
\* pad_width = [0,0,0,0,0,0], whether or not q_values is supplied (stated
\* for centering = 'max' and no fix_bragg)
C2_SkipIsIdentity ==
    (Done /\ args.fft_option = "skip" /\ args.centering = "max"
          /\ args.fix_bragg = <<>>)
        => /\ Returned
           /\ ret.data = args.data
           /\ ret.mask = args.mask
           /\ ret.frames_logical = args.frames_logical
           /\ ret.q_values = KwargQValues(args)
           /\ ret.pad_width = NoPad

\* C3: with 'crop_sym_ZYX', a peak voxel inside the volume and a
\* non-degenerate box, center_fft returns a volume no longer than the input
\* on any axis, holding the input block in which the peak voxel sits at
\* index (nz/2, ny/2, nx/2)
C3_CropSymCentered ==
    (Done /\ args.fft_option = "crop_sym_ZYX" /\ PeakInVolume /\ NonDegenerate)
        => /\ Returned
           /\ ret.mask.shape = ret.data.shape
           /\ \A k \in 1 .. 3 :
                /\ ret.data.shape[k] >= 2
                /\ ret.data.shape[k] <= args.data.shape[k]
           /\ \A p \in Idx3(ret.data.shape) :
                LET src == [k \in 1 .. 3 |->
                              p[k] + ret.peak[k] - ret.data.shape[k] \div 2]
                IN  /\ src \in Idx3(args.data.shape)
                    /\ ret.data.v[p] = args.data.v[src]
                    /\ ret.mask.v[p] = args.mask.v[src]

\* C3 witness: a symmetric crop that removed voxels before the peak
C3_Witness ==
    /\ Returned /\ args.fft_option = "crop_sym_ZYX"
    /\ PeakInVolume /\ NonDegenerate
    /\ ret.crop[1] > 0 /\ ret.crop[2] > 0
    /\ ret.data.v[<<ret.data.shape[1] \div 2, ret.data.shape[2] \div 2,
                    ret.data.shape[3] \div 2>>] = PeakValue

\* the caller-given target size of a padded axis is not FFT-compatible
BadTarget ==
    /\ args.fft_option \in CallerSizedOptions
    /\ Len(args.pad_size) = 3
    /\ \E k \in PaddedAxes(args.fft_option) : ~FFTCompatible(args.pad_size[k])

\* C4 as claimed: a target size that is not FFT-compatible on a padded axis
\* always ends in an error, the arrays left as passed in
C4_Original == (Done /\ BadTarget) => (Raised /\ FramesUntouched)

\* C4 as amended: the same, unless the symmetric box around the resolved
\* center is degenerate (the policy is then replaced by 'skip' before
\* pad_size is looked at)
C4_BadTargetRejected ==
    (Done /\ BadTarget /\ ~Degenerate) => (Raised /\ FramesUntouched)

\* C4 witness: a rejected target size, the box being non-degenerate
C4_Witness == Raised /\ BadTarget /\ NonDegenerate /\ PeakInVolume

\* a padding policy with caller-given size is asked for n on its first axis
\* (the other sizes FFT-compatible), the peak in the volume, the box not
\* degenerate
TargetZ(n) ==
    /\ args.fft_option \in CallerSizedOptions
    /\ Len(args.pad_size) = 3
    /\ args.pad_size[1] = n
    /\ \A k \in 2 .. 3 : FFTCompatible(args.pad_size[k])
    /\ PeakInVolume /\ NonDegenerate

\* C5 as claimed: a pad target size of 70 ends in an error before any
\* array is touched
C5_Original == (Done /\ TargetZ(70)) => (Raised /\ FramesUntouched)

\* C5 as amended: 70 = 2*5*7 is FFT-compatible and is accepted, the axis
\* is padded to 70; a size that is not, such as 22 = 2*11, ends in an
\* error before any array is touched
C5_Target70Accepted ==
    /\ (Done /\ TargetZ(70)) => (Returned /\ ret.data.shape[1] = 70
                                          /\ ret.mask.shape[1] = 70)
    /\ (Done /\ TargetZ(22)) => (Raised /\ FramesUntouched)

\* C5 witness: a volume padded to 70 frames
C5_Witness == Returned /\ TargetZ(70) /\ ret.data.shape[1] = 70

\* the volume holds no intensity
ZeroVolume == \A p \in Idx3(args.data.shape) : args.data.v[p] = 0

\* q_values = None is passed
QValuesNone == args.q_supplied /\ args.q_values.none

\* center_fft returned what 'skip' returns
BehavedAsSkip ==
    /\ Returned
    /\ ret.data = args.data
    /\ ret.mask = args.mask
    /\ ret.frames_logical = args.frames_logical
    /\ ret.pad_width = NoPad
    /\ \A k \in 1 .. 3 : ret.data.shape[k] > 0

\* C6: when the symmetric box around the resolved center has zero width on
\* an axis, the peak on a border or the volume without intensity,
\* center_fft behaves as 'skip' for every policy and for the centering
\* methods max, com and max_com: no error, arrays unchanged, pad_width all
\* zero, no axis of length 0 (stated for q_values = None and no fix_bragg)
C6_DegenerateBoxSkips ==
    (Done /\ QValuesNone /\ args.fix_bragg = <<>>
          /\ args.centering \in {"max", "com", "max_com"}
          /\ (ZeroVolume \/ Degenerate))
        => BehavedAsSkip

\* C7: for every cropping policy center_fft keeps the resolved peak voxel
\* inside the returned volume or ends in an error (stated for the peak
\* found in the data): a normal return holds the peak voxel in its block
C7_CropKeepsPeak ==
    (Returned /\ ret.fft_option \in CropOptions /\ args.fix_bragg = <<>>)
        => \A k \in CroppedAxes(ret.fft_option) :
              /\ ret.crop[k] <= ret.peak[k]
              /\ ret.peak[k] < ret.crop[k] + BlockLen(k)

\* the position fix_bragg is remapped to, rounded
FixedPeak == RoundPos(FixBragg(args, <<>>).pos).ipos

\* fix_bragg is given and is remapped to a position outside the volume
FixedOutside ==
    /\ Len(args.fix_bragg) = 3
    /\ ~InVolume(FixedPeak, args.data.shape)

\* C8: when fix_bragg, remapped through the ROI origin and the binning,
\* falls outside [0, extent) on an axis, negative indices included,
\* center_fft does not return a cropped or padded result
C8_FixBraggOutsideRejected ==
    (Done /\ FixedOutside) => ~(Returned /\ ret.fft_option # "skip")

\* the block of input voxels a returned index p falls in, and the input
\* voxel it came from
InBlock(p) ==
    \A k \in 1 .. 3 :
        /\ p[k] >= ret.pad_width[2 * k - 1]
        /\ p[k] < ret.pad_width[2 * k - 1] + BlockLen(k)
BlockSource(p) == [k \in 1 .. 3 |-> p[k] - ret.pad_width[2 * k - 1] + ret.crop[k]]

\* C9: for every padding policy the returned data holds the (possibly
\* cropped) input block unchanged at offset (pad_width[0], pad_width[2],
\* pad_width[4]) and 0 in every padded voxel, the returned mask holds the
\* input mask block at the same offset and 1 in every padded voxel; an axis
\* is as long as its block plus its two pad_width entries, the block being
\* the whole input axis where the policy does not crop
C9_PaddingContent ==
    (Returned /\ ret.fft_option \in PadOptions)
        => /\ ret.mask.shape = ret.data.shape
           /\ \A i \in 1 .. 6 : ret.pad_width[i] >= 0
           /\ \A k \in 1 .. 3 :
                /\ BlockLen(k) >= 0
                /\ ret.crop[k] >= 0
                /\ ret.crop[k] + BlockLen(k) <= args.data.shape[k]
                /\ k \notin CroppedAxes(ret.fft_option)
                      => BlockLen(k) = args.data.shape[k]
           /\ \A p \in Idx3(ret.data.shape) :
                IF InBlock(p)
                THEN /\ ret.data.v[p] = args.data.v[BlockSource(p)]
                     /\ ret.mask.v[p] = args.mask.v[BlockSource(p)]
                ELSE /\ ret.data.v[p] = 0
                     /\ ret.mask.v[p] = 1

\* C9 witness: a volume padded before and after the rocking curve, the
\* peak voxel moved by the padding and a masked voxel of the input with it
C9_Witness ==
    /\ Returned /\ ret.fft_option \in PadOptions
    /\ ret.pad_width[1] > 0 /\ ret.pad_width[2] > 0
    /\ \E p \in Idx3(ret.data.shape) :
          /\ InBlock(p)
          /\ ret.data.v[p] = PeakValue
          /\ BlockSource(p) # p
    /\ \E p \in Idx3(ret.data.shape) : InBlock(p) /\ ret.mask.v[p] = 0

\* the rocking indices the crop kept
KeptFrame(i) == i >= ret.crop[1] /\ i < ret.crop[1] + ret.data.shape[1]

\* C10: after center_fft the frames sliced away by cropping are 0, the
\* frames introduced by padding are -1, and every retained measured frame
\* has the value it had on input, in the same order, shifted by
\* pad_width[0] when padding
C10_FrameValidity ==
    Returned
        => LET f == ret.frames_logical
               nbz == args.data.shape[1]
           IN  IF ret.fft_option \in {"crop_sym_ZYX", "crop_asym_ZYX"}
               THEN /\ DOMAIN f = 0 .. nbz - 1
                    /\ \A i \in 0 .. nbz - 1 :
                          f[i] = IF KeptFrame(i) THEN args.frames_logical[i]
                                 ELSE 0
               ELSE /\ DOMAIN f = 0 .. ret.data.shape[1] - 1
                    /\ \A j \in DOMAIN f :
                          f[j] = IF j >= ret.pad_width[1]
                                    /\ j < ret.pad_width[1] + nbz
                                 THEN args.frames_logical[j - ret.pad_width[1]]
                                 ELSE -1

\* C10 witness: padded frames before and after the measured ones, of which
\* one was used and one was not
C10_Witness ==
    /\ Returned /\ PeakInVolume
    /\ ret.pad_width[1] > 0 /\ ret.pad_width[2] > 0
    /\ ret.frames_logical[0] = -1
    /\ \E j \in DOMAIN ret.frames_logical : ret.frames_logical[j] = 1
    /\ \E j \in DOMAIN ret.frames_logical : ret.frames_logical[j] = 0

PureCropOptions == {"crop_sym_ZYX", "crop_asym_ZYX"}

\* C11 as claimed: the returned frames_logical is as long as the first axis
\* of the returned data
C11_Original ==
    (Returned /\ PeakInVolume) => VLen(ret.frames_logical) = ret.data.shape[1]

\* C11 as amended: with 'skip' and with every padding policy the returned
\* frames_logical is as long as the first axis of the returned data; with
\* 'crop_sym_ZYX' and 'crop_asym_ZYX' it keeps its input length, the
\* number of measured frames, which is at least the returned first axis
C11_FramesLength ==
    Returned
        => IF ret.fft_option \in PureCropOptions
           THEN /\ VLen(ret.frames_logical) = args.data.shape[1]
                /\ ret.data.shape[1] <= args.data.shape[1]
           ELSE VLen(ret.frames_logical) = ret.data.shape[1]

\* C11 witness: a crop that removed frames, frames_logical left longer
\* than the returned data
C11_Witness ==
    /\ Returned /\ ret.fft_option \in PureCropOptions /\ PeakInVolume
    /\ ret.data.shape[1] < args.data.shape[1]
    /\ VLen(ret.frames_logical) = args.data.shape[1]

\* q_values = [qx, qz, qy] is passed, each vector as long as its axis
QValuesGiven ==
    /\ args.q_supplied /\ ~args.q_values.none
    /\ Len(args.q_values.v) = 3
    /\ \A k \in 1 .. 3 : VLen(args.q_values.v[k]) = args.data.shape[k]

\* C12: when q_values are supplied with lengths matching the input axes,
\* the three q vectors center_fft returns are as long as the corresponding
\* axes of the returned data (stated for the peak found in the data)
C12_QLengths ==
    (Returned /\ QValuesGiven /\ args.fix_bragg = <<>>)
        => \A k \in 1 .. 3 : VLen(ret.q_values.v[k]) = ret.data.shape[k]

\* C13: when a padding policy extends a q axis, the extended axis carries
\* each original coordinate at the index of the voxel it belonged to: for
\* every padded axis, new_q[pad_before + i] = old_q[i], pad_before being
\* the pad_width entry before that array axis (stated for the peak found
\* in the data)
C13_QExtension ==
    (Returned /\ QValuesGiven /\ args.fix_bragg = <<>>
              /\ ret.fft_option \in PadOptions)
        => \A k \in PaddedAxes(ret.fft_option) :
              \A i \in 0 .. args.data.shape[k] - 1 :
                 LET j == ret.pad_width[2 * k - 1] + i
                 IN  /\ j \in DOMAIN ret.q_values.v[k]
                     /\ ret.q_values.v[k][j] = args.q_values.v[k][i]

\* C14: when the q_values keyword is not supplied, center_fft completes
\* for every valid fft_option and returns an empty list as q_values
\* (stated for the policies that need no pad_size)
C14_QValuesAbsent ==
    (Done /\ ~args.q_supplied /\ args.fft_option \in FftOptions \ SizedOptions)
        => (Returned /\ ret.q_values = QList(<<>>))

\* the centering names the docstring of center_fft gives
DocumentedCenterings == {"max", "com", "max_com"}

\* C15: center_fft ends in an error for every fft_option outside its
\* documented names and for every centering name outside {max, com,
\* max_com}, for every input volume, a degenerate box included, without
\* having changed frames_logical
C15_UnknownNamesRejected ==
    (Done /\ (args.fft_option \notin FftOptions
                \/ args.centering \notin DocumentedCenterings))
        => (Raised /\ FramesUntouched)

\* a peak-centered padding policy is called with an FFT-compatible size on
\* each axis it pads, the peak inside the volume
CenteredPadCall ==
    /\ args.fft_option \in CallerSizedOptions
    /\ Len(args.pad_size) = 3
    /\ \A k \in PaddedAxes(args.fft_option) : FFTCompatible(args.pad_size[k])
    /\ PeakInVolume

\* the padded axes have the length asked for, the peak at its half
PaddedAndCentered ==
    /\ Returned
    /\ \A k \in PaddedAxes(args.fft_option) :
          /\ ret.data.shape[k] = args.pad_size[k]
          /\ ret.pad_width[2 * k - 1] + ret.peak[k] = args.pad_size[k] \div 2

\* pad_size leaves room to center the peak on axis k by padding alone
RoomToCenter(k) ==
    /\ 2 * ResolvedPeak[k] <= args.pad_size[k]
    /\ 2 * (args.data.shape[k] - ResolvedPeak[k]) <= args.pad_size[k]

AsymPadOptions ==
    {"pad_asym_Z", "pad_asym_Z_crop_sym_YX", "pad_asym_Z_crop_asym_YX",
     "pad_asym_ZYX"}

\* C17: for the non-centered padding policies each padded axis of the
\* result has the smallest FFT-compatible length at least the input
\* length, the two pad_width entries of the axis sum to the difference,
\* and the result is the same whether pad_size is absent or has any value
\* (stated for q_values = None, the peak found in the data and a box that
\* is not degenerate)
C17_AsymPadding ==
    (Done /\ args.fft_option \in AsymPadOptions /\ QValuesNone
          /\ args.fix_bragg = <<>> /\ NonDegenerate)
        => /\ Returned
           /\ \A k \in PaddedAxes(args.fft_option) :
                /\ ret.data.shape[k] = higher_primes(args.data.shape[k])
                /\ ret.pad_width[2 * k - 1] + ret.pad_width[2 * k]
                     = higher_primes(args.data.shape[k]) - args.data.shape[k]
           /\ \A ps \in PadSizes :
                center_fft([args EXCEPT !.pad_size = ps]) = ret

\* ------------------------------------------------ PeakFinder claims
DeferredMethods == {"user", "skip"}

\* the operations that ask for the selected peak position
PeakRequests == {"bragg_peak", "metadata", "fit_rocking_curve"}

\* C18: constructing a PeakFinder with peak_method "user" or "skip"
\* succeeds, and the error for the undefined peak position is raised only
\* afterwards, by the operation that asks for the selected position
\* (bragg_peak, metadata, the rocking-curve fit)
C18_DeferredPeakError ==
    /\ (pc # "new" /\ args.peak_method \in DeferredMethods
                   /\ args.array # EmptyVolume(args.array.shape))
           => (pc = "ready" /\ peakfinder # None)
    /\ (pc = "ready" /\ peakfinder.peak_method \in DeferredMethods
                     /\ ret.op \in PeakRequests)
           => ret.status = "error"

\* the length of the angle axis of a fit: tilt_values, or one angle per
\* frame of the array
AngleAxisLen(tilt_values) ==
    IF tilt_values.none THEN peakfinder.array.shape[1]
    ELSE VLen(tilt_values.v)

\* frames_pattern, when given, has one flag per angle
PatternFits(tilt_values) ==
    \/ peakfinder.frames_pattern.none
    \/ VLen(peakfinder.frames_pattern.v.v) = AngleAxisLen(tilt_values)

\* the length of the angle axis restricted to the valid frames
ValidAxisLen(tilt_values) ==
    IF peakfinder.frames_pattern.none THEN AngleAxisLen(tilt_values)
    ELSE CountKept(peakfinder.frames_pattern.v.v)

NothingFitted(self) ==
    /\ self._interp_tilt_values = None
    /\ self._interp_rocking_curve = None
    /\ self._interp_fwhm = None

\* a step that calls fit_rocking_curve, with a selected peak, nothing
\* fitted before, and an angle axis whose length differs from the rocking
\* curve's
MismatchedFit ==
    /\ pc = "ready"
    /\ ret'.op = "fit_rocking_curve"
    /\ peakfinder.peak_method \in ComputedMethods
    /\ NothingFitted(peakfinder)
    /\ PatternFits(ret'.tilt_values)
    /\ ValidAxisLen(ret'.tilt_values) # peakfinder.array.shape[1]

\* C19: fit_rocking_curve with an angle axis (restricted to the valid
\* frames when frames_pattern is given) shorter or longer than the rocking
\* curve returns without raising, the rocking curve is in metadata, and
\* interp_tilt_values, interp_rocking_curve and interp_fwhm stay None
C19_MismatchIsNotFatal ==
    [][MismatchedFit =>
          /\ ret'.status = "ok"
          /\ metadata(peakfinder').ok
          /\ ~metadata(peakfinder').v.rocking_curve.none
          /\ NothingFitted(peakfinder')]_vars

\* -------------------------------------------------- regridder claims
GridReturned == pc = "gridded" /\ ret.status = "ok"

\* the voxels of the grid no input sample contributes to
EmptyVoxels == {v \in VoxelIds : args.geometry[v] = {}}

DefaultFill == args.regridder = "labframe" => args.fill_value = None

\* C20: in the output of grid_bcdi_labframe with its default fill values
\* and of grid_bcdi_xrayutil, every voxel of the grid that received no
\* contributing input sample has mask value 1 and data value 0
C20_EmptyVoxelsInvalid ==
    (GridReturned /\ DefaultFill) =>
        \A v \in EmptyVoxels :
            ret.interp_mask[v] = 1 /\ ret.interp_data[v] = Zero

\* the call as it ran with the gridder holding empty in its empty bins (the
\* linearized regridder has no such bins: its empty voxels take the fill)
Ran(empty) ==
    ret = IF args.regridder = "labframe" THEN grid_bcdi_labframe(args)
          ELSE grid_bcdi_xrayutil(args, empty)

\* the interpolated data and mask, before the check for NaN
InterpData(empty) ==
    IF args.regridder = "labframe"
    THEN ortho_reciprocal(args.data, args.geometry, KwargFillValue(args)[1])
    ELSE FuzzyGridder3D(args.data, args.geometry, empty)

InterpMask(empty) ==
    IF args.regridder = "labframe"
    THEN ortho_reciprocal(args.mask, args.geometry, KwargFillValue(args)[2])
    ELSE FuzzyGridder3D(args.mask, args.geometry, empty)

IsZero(x) == x[1] = 0 /\ x[2] # 0

\* C21: in the output of both regridders no NaN remains in the data; every
\* voxel whose interpolated data or interpolated mask was NaN ends with
\* mask 1 and data 0; data is 0 wherever the mask is 1
C21_NaNFoldedBeforeZeroing ==
    GridReturned =>
        \A empty \in EmptyBinValues :
            Ran(empty) =>
                \A v \in VoxelIds :
                    /\ ~IsNaN(ret.interp_data[v])
                    /\ (IsNaN(InterpData(empty)[v]) \/ IsNaN(InterpMask(empty)[v]))
                           => (ret.interp_mask[v] = 1 /\ IsZero(ret.interp_data[v]))
                    /\ ret.interp_mask[v] = 1 => IsZero(ret.interp_data[v])

\* a NaN in the interpolated data of one voxel with an unmasked
\* interpolated mask, and in another voxel intensity under a masked sample
C21_Witness ==
    /\ GridReturned
    /\ \E empty \in EmptyBinValues :
         /\ Ran(empty)
         /\ \E v, w \in VoxelIds :
              /\ IsNaN(InterpData(empty)[v])
              /\ IsZero(InterpMask(empty)[v])
              /\ ret.interp_mask[v] = 1
              /\ IsZero(ret.interp_data[v])
              /\ InterpData(empty)[w][1] > 0
              /\ InterpMask(empty)[w][1] > 0
              /\ ret.interp_mask[w] = 1
              /\ IsZero(ret.interp_data[w])

\* the invalid-voxel rule: the interpolated mask is nonzero or NaN, or the
\* interpolated data is NaN
InvalidVoxel(empty, v) ==
    \/ InterpMask(empty)[v][1] # 0
    \/ IsNaN(InterpMask(empty)[v])
    \/ IsNaN(InterpData(empty)[v])

\* C27: both regridders return mask 1 exactly at the voxels whose
\* interpolated mask is nonzero (a fraction included) or NaN or whose
\* interpolated data is NaN, mask 0 elsewhere, and zero the data at exactly
\* those voxels
C27_SameInvalidRule ==
    GridReturned =>
        \A empty \in EmptyBinValues :
            Ran(empty) =>
                \A v \in VoxelIds :
                    IF InvalidVoxel(empty, v)
                    THEN ret.interp_mask[v] = 1 /\ IsZero(ret.interp_data[v])
                    ELSE /\ ret.interp_mask[v] = 0
                         /\ ret.interp_data[v] = InterpData(empty)[v]

\* C28: in grid_bcdi_xrayutil the number of bins of each axis of the
\* gridder (qx, qz, qy, in the order the coordinates are passed to it) is
\* the FFT-compatible count computed from the range and sampling step of
\* the coordinate gridded along that axis, and the width of a data point
\* along an axis is that coordinate's range divided by the bin count of
\* that axis
C28_BinsMatchAxes ==
    (GridReturned /\ args.regridder = "xrayutil") =>
        \A k \in 1 .. 3 :
            /\ ret.gridder[k].bins
                   = smaller_primes(MaxBin(args.q[ret.gridder[k].coordinate]))
            /\ ret.gridder[k].width
                   = <<args.q[ret.gridder[k].coordinate].range,
                       ret.gridder[k].bins>>

\* ------------------------------------------- PeakFinder frame claims
\* the PeakFinder was asked for a peak find_peak computes, on an array
\* that holds intensity
ComputedPeakCall ==
    /\ pc # "new"
    /\ args.peak_method \in ComputedMethods
    /\ args.array # EmptyVolume(args.array.shape)

\* C30: for every array, ROI and binning, a rocking-axis binning above 1
\* included, construction does not go out of bounds, and _roi_center
\* equals get_indices_cropped_binned_detector of the selected full-frame
\* peak, the position found in the array, with its rocking index inside
\* the array
C30_RoiCenterIsArrayPosition ==
    ComputedPeakCall =>
        /\ pc = "ready"
        /\ peakfinder.peak_method \in ComputedMethods =>
             /\ _roi_center(peakfinder).v
                    = get_indices_cropped_binned_detector(
                          peakfinder, bragg_peak(peakfinder).v)
             /\ _roi_center(peakfinder).v[1] \in 0 .. args.array.shape[1] - 1
             /\ peakfinder.peak_method = "max" =>
                    _roi_center(peakfinder).v
                        = Unravel(ArgMax(args.array), args.array.shape)

\* ------------------------------------------------ process_scan claims
Positions(name) == {i \in 1 .. Len(scan.calls) : scan.calls[i] = name}

HasRun(name) == Positions(name) # {}

C23_RampRoundTrip ==
    \A u \in Positions("update_data") :
        /\ \A i \in Positions("add_ramp") :
              /\ i < u
              /\ \E j \in Positions("add_ramp(sign=-1)") :
                    /\ i < j
                    /\ j < u
                    /\ Positions("add_ramp(sign=-1)") = {j}
                    /\ \A r \in Positions("remove_ramp") : r < i
        /\ Positions("add_ramp") # {}
        /\ ~scan.prm.apodize => scan.analysis.v.data = scan.held.v

\* update_data has received the phase of a run without apodization whose
\* fitted gradient was not zero
C23_Witness ==
    /\ pc = "angles"
    /\ HasRun("update_data")
    /\ ~scan.prm.apodize
    /\ scan.saved.v # scan.held.v

UndefinedWavelength ==
    /\ scan.prm.correct_refraction
    /\ scan.prm.energy.none

AfterRefraction == {"ramp", "offset", "strain", "returned"}

\* C24 as stated: with the refraction correction requested and no
\* wavelength, process_scan does not raise at the correction; it goes on to
\* the ramp removal with the phase left as it was.
C24_CorrectionSkipped ==
    UndefinedWavelength => ~(pc = "raised" /\ ret.at = "refraction")

\* C24 amended: with the refraction correction requested and no wavelength,
\* process_scan never gets past the correction: a run that reaches it ends
\* there with ValueError, and no ramp removal, offset removal or strain
\* derivation runs.
C24_UndefinedWavelengthAborts ==
    UndefinedWavelength =>
        /\ pc \notin AfterRefraction
        /\ ~HasRun("pu.remove_ramp")
        /\ ~HasRun("get_strain")
        /\ (pc = "raised" /\ ret.at = "refraction" => ret.error = "ValueError")

\* a run with a defined phase has been ended by the missing wavelength
C24_Witness ==
    /\ UndefinedWavelength
    /\ pc = "raised"
    /\ ret.error = "ValueError"
    /\ ~scan.phase.none

\* C26: process_scan leaves the dictionary prm it was given as it found it,
\* so nothing of one scan reaches the next through prm.
C26_PrmUnchanged == pc = "returned" => scan.prm = args.prm

ReadsPhase == {"ramp", "offset", "strain"}

\* C29: whatever the configuration, skip_unwrap = True included, the steps
\* from the sign inversion to the strain find phase and extent_phase
\* assigned: no run ends on a name that was never bound.
C29_PhaseDefined ==
    /\ ~(pc = "raised" /\ ret.error = "UnboundLocalError")
    /\ pc \in ReadsPhase => ~scan.phase.none /\ ~scan.extent_phase.none
    /\ pc = "invert" /\ scan.prm.invert_phase => ~scan.phase.none

\* ------------------------------------------------ batch run claims
\* C25: in a batch, an error raised while scan i is processed does not keep
\* the scans after it from being processed: every scan of prm["scans"] is
\* eventually attempted.
C25_EveryScanAttempted == <>(scan.attempted = 1 .. nb_scans)

====
